---- MODULE Spec2Model ----
(***************************************************************************)
(* Model of the Wordle game engine (GameService) of alisoyunjov/wordle:    *)
(* the scorer (scoreGuess), the Absurdle selector (absurdleScoreGuess)     *)
(* and the per-game state machine (createGame / submitGuess / getGame /    *)
(* getGameAnswer).                                                         *)
(*                                                                         *)
(* Words are sequences of one-character strings.  The JavaScript values    *)
(* "" (empty string), null and undefined of a word-typed field are all     *)
(* falsy and the code only ever tests them for truthiness or compares      *)
(* them with "", so all three are written << >>.                           *)
(***************************************************************************)
EXTENDS Integers, Sequences, FiniteSets, TLC

VARIABLES
  games,       \* GameService.games: gameId -> ServerGameState
  lastResult,  \* what the last service call returned or threw
  turnLog,     \* gameId -> <<currentPlayerIndex, currentRow>> after creation and after each accepted guess
  sGuess,      \* scorer / selector harness: the guess passed in
  sAnswer,     \* scorer harness: the answer passed in
  sPool,       \* selector harness: the candidate words passed in
  sOut,        \* harness: the value returned
  sStage,      \* harness: "idle" | "input" | "done"
  origin,      \* the store when the first of a burst of requests arrived
  inflight,    \* submitGuess requests received by the server and not yet handled
  served       \* the requests handled, in the order the handler ran, with their outcome

vars == <<games, lastResult, turnLog, sGuess, sAnswer, sPool, sOut, sStage,
          origin, inflight, served>>
gameVars == <<games, lastResult, turnLog>>
harnessVars == <<sGuess, sAnswer, sPool, sOut, sStage>>
concVars == <<origin, inflight, served>>

\* no service call made yet, no game stored
NoResult == [op |-> "none", error |-> "", value |-> << >>]

IdleGames ==
  /\ games = << >>
  /\ lastResult = NoResult
  /\ turnLog = << >>
  /\ origin = << >>
  /\ inflight = {}
  /\ served = << >>

----------------------------------------------------------------------------
(* Characters *)

UpperLetters == {"A", "B", "C", "L", "M", "O", "Y"}
LowerLetters == {"a", "b", "c"}
Chars == UpperLetters \cup LowerLetters \cup {" ", "1"}

\* String.prototype.toUpperCase on one character
ToUpper(ch) ==
  CASE ch = "a" -> "A"
    [] ch = "b" -> "B"
    [] ch = "c" -> "C"
    [] OTHER -> ch

\* guess.toUpperCase()
UpperWord(w) == [i \in 1..Len(w) |-> ToUpper(w[i])]

----------------------------------------------------------------------------
(* scoreGuess *)

Letter(c, s) == [char |-> c, state |-> s]

\* answerArray.forEach: answerLetterCount[letter] = (answerLetterCount[letter] || 0) + 1
\* (a letter the answer does not hold reads as undefined, which the code treats as 0)
CountLetters(answerArray) ==
  [c \in Chars |-> Cardinality({i \in 1..Len(answerArray) : answerArray[i] = c})]

\* mutant: a hit does not consume the answer's letter count
HitStepKeepCount(acc, letter, answerLetter) ==
  IF letter = answerLetter
    THEN [result |-> Append(acc.result, Letter(letter, "hit")), count |-> acc.count]
    ELSE [result |-> Append(acc.result, Letter(letter, "empty")), count |-> acc.count]

\* mutant: the first pass compares case-insensitively against nothing: never a hit
HitStepNever(acc, letter, answerLetter) ==
  [result |-> Append(acc.result, Letter(letter, "empty")), count |-> acc.count]

\* callback of the first forEach: exact matches
HitStep(acc, letter, answerLetter) ==
  IF letter = answerLetter
    THEN [result |-> Append(acc.result, Letter(letter, "hit")),
          count  |-> [acc.count EXCEPT ![letter] = @ - 1]]
    ELSE [result |-> Append(acc.result, Letter(letter, "empty")), count |-> acc.count]

\* mutant: a present does not consume the answer's letter count
PresentStepKeepCount(acc, letterObj) ==
  IF letterObj.state = "empty"
    THEN IF acc.count[letterObj.char] > 0
           THEN [result |-> Append(acc.result, Letter(letterObj.char, "present")),
                 count  |-> acc.count]
           ELSE [result |-> Append(acc.result, Letter(letterObj.char, "miss")),
                 count  |-> acc.count]
    ELSE [result |-> Append(acc.result, letterObj), count |-> acc.count]

\* callback of the second forEach: wrong-position matches and misses
PresentStep(acc, letterObj) ==
  IF letterObj.state = "empty"
    THEN IF acc.count[letterObj.char] > 0
           THEN [result |-> Append(acc.result, Letter(letterObj.char, "present")),
                 count  |-> [acc.count EXCEPT ![letterObj.char] = @ - 1]]
           ELSE [result |-> Append(acc.result, Letter(letterObj.char, "miss")),
                 count  |-> acc.count]
    ELSE [result |-> Append(acc.result, letterObj), count |-> acc.count]

\* an index past the end of the answer reads undefined, which equals no letter
AnswerAt(answerArray, i) == IF i <= Len(answerArray) THEN answerArray[i] ELSE "undefined"

RECURSIVE FirstPass(_, _, _, _)
FirstPass(guessArray, answerArray, i, acc) ==
  IF i > Len(guessArray) THEN acc
  ELSE FirstPass(guessArray, answerArray, i + 1,
                 HitStep(acc, guessArray[i], AnswerAt(answerArray, i)))

RECURSIVE SecondPass(_, _, _)
SecondPass(firstResult, i, acc) ==
  IF i > Len(firstResult) THEN acc
  ELSE SecondPass(firstResult, i + 1, PresentStep(acc, firstResult[i]))

\* the second forEach over the result of the first, with the counts it left
scoreSecond(first) ==
  SecondPass(first.result, 1, [result |-> << >>, count |-> first.count]).result

\* the first forEach over the split, upper-cased strings
scoreArrays(guessArray, answerArray) ==
  scoreSecond(FirstPass(guessArray, answerArray, 1,
                        [result |-> << >>, count |-> CountLetters(answerArray)]))

scoreGuess(guess, answer) == scoreArrays(UpperWord(guess), UpperWord(answer))

----------------------------------------------------------------------------
(* scorePattern and absurdleScoreGuess *)

HitPoints == 6
PresentPoints == 1

\* mutant: a hit is worth no more than a present
PatternPointsFlat(letter) ==
  IF letter.state = "hit" THEN PresentPoints
  ELSE IF letter.state = "present" THEN PresentPoints
  ELSE 0

\* callback of pattern.forEach in scorePattern
PatternPoints(letter) ==
  IF letter.state = "hit" THEN HitPoints
  ELSE IF letter.state = "present" THEN PresentPoints
  ELSE 0

RECURSIVE SumPoints(_, _)
SumPoints(pattern, i) ==
  IF i > Len(pattern) THEN 0 ELSE PatternPoints(pattern[i]) + SumPoints(pattern, i + 1)

scorePattern(pattern) == SumPoints(pattern, 1)

\* candidateWords.forEach: one {word, pattern, score} entry per candidate, in order
WordScore(candidate, pattern) ==
  [word |-> candidate, pattern |-> pattern, score |-> scorePattern(pattern)]
WordScores(guessUpper, candidateWords) ==
  [i \in 1..Len(candidateWords) |->
     WordScore(candidateWords[i], scoreGuess(guessUpper, candidateWords[i]))]

\* mutant: Math.max in place of Math.min
MinScoreIsMax(wordScores) ==
  IF Len(wordScores) = 0 THEN -1
  ELSE CHOOSE m \in {wordScores[i].score : i \in 1..Len(wordScores)} :
         \A i \in 1..Len(wordScores) : m >= wordScores[i].score

\* Math.min(...scores); Math.min() of nothing is Infinity, written -1 (no score is negative)
Infinity == -1
MinScore(wordScores) ==
  IF Len(wordScores) = 0 THEN Infinity
  ELSE CHOOSE m \in {wordScores[i].score : i \in 1..Len(wordScores)} :
         \A i \in 1..Len(wordScores) : m <= wordScores[i].score

\* wordScores.filter((ws) => ws.score === minScore)
LowestScoringWords(wordScores, minScore) ==
  SelectSeq(wordScores, LAMBDA ws : ws.score = minScore)

\* the all-"empty" pattern of the withholding branch
EmptyPattern(guessUpper) == [i \in 1..Len(guessUpper) |-> Letter(guessUpper[i], "empty")]

\* mutant: a single zero-score candidate is not forced, feedback stays withheld
DecideNeverForceZero(guessUpper, minScore, lowestScoringWords) ==
  IF minScore = 0
    THEN [pattern |-> EmptyPattern(guessUpper), selectedAnswer |-> << >>]
    ELSE [pattern |-> lowestScoringWords[1].pattern,
          selectedAnswer |-> lowestScoringWords[1].word]

\* mutant: the pattern is taken from the last of the lowest-scoring words, the
\* answer from the first
DecidePatternOfLast(guessUpper, minScore, lowestScoringWords) ==
  IF minScore = 0
    THEN IF Len(lowestScoringWords) = 1
           THEN [pattern |-> lowestScoringWords[1].pattern,
                 selectedAnswer |-> lowestScoringWords[1].word]
           ELSE [pattern |-> EmptyPattern(guessUpper), selectedAnswer |-> << >>]
    ELSE [pattern |-> lowestScoringWords[Len(lowestScoringWords)].pattern,
          selectedAnswer |-> lowestScoringWords[1].word]

\* mutant: among several lowest-scoring words the last one is selected
DecideLastOfLowest(guessUpper, minScore, lowestScoringWords) ==
  IF minScore = 0
    THEN IF Len(lowestScoringWords) = 1
           THEN [pattern |-> lowestScoringWords[1].pattern,
                 selectedAnswer |-> lowestScoringWords[1].word]
           ELSE [pattern |-> EmptyPattern(guessUpper), selectedAnswer |-> << >>]
    ELSE [pattern |-> lowestScoringWords[Len(lowestScoringWords)].pattern,
          selectedAnswer |-> lowestScoringWords[Len(lowestScoringWords)].word]

\* the if (minScore === 0) ... else ... decision
Decide(guessUpper, minScore, lowestScoringWords) ==
  IF minScore = 0
    THEN IF Len(lowestScoringWords) = 1
           THEN [pattern |-> lowestScoringWords[1].pattern,
                 selectedAnswer |-> lowestScoringWords[1].word]
           ELSE [pattern |-> EmptyPattern(guessUpper), selectedAnswer |-> << >>]
    ELSE [pattern |-> lowestScoringWords[1].pattern,
          selectedAnswer |-> lowestScoringWords[1].word]

\* the return statement, given the decision
absurdleReturn(lowestScoringWords, decision) ==
  [threw |-> FALSE,
   pattern |-> decision.pattern,
   remainingWords |-> [i \in 1..Len(lowestScoringWords) |-> lowestScoringWords[i].word],
   selectedAnswer |-> decision.selectedAnswer]

\* threw = TRUE models: throw new Error("No valid patterns found")
absurdleDecide(guessUpper, minScore, lowestScoringWords) ==
  IF Len(lowestScoringWords) = 0
    THEN [threw |-> TRUE, pattern |-> << >>, remainingWords |-> << >>,
          selectedAnswer |-> << >>]
    ELSE absurdleReturn(lowestScoringWords, Decide(guessUpper, minScore, lowestScoringWords))

absurdleFilter(guessUpper, wordScores, minScore) ==
  absurdleDecide(guessUpper, minScore, LowestScoringWords(wordScores, minScore))

absurdleMin(guessUpper, wordScores) ==
  absurdleFilter(guessUpper, wordScores, MinScore(wordScores))

absurdleUpper(guessUpper, candidateWords) ==
  absurdleMin(guessUpper, WordScores(guessUpper, candidateWords))

absurdleScoreGuess(guess, candidateWords) == absurdleUpper(UpperWord(guess), candidateWords)

----------------------------------------------------------------------------
(* The dictionary *)

\* WORDS (../data/words), loaded by loadWordList: upper-case words of one length
WORDS == << <<"A", "B">>, <<"B", "A">>, <<"C", "C">> >>
wordList == WORDS

\* this.wordList.includes(word.toUpperCase())
isValidWord(word) == \E i \in 1..Len(wordList) : wordList[i] = UpperWord(word)

----------------------------------------------------------------------------
(* createGame *)

MaxRoundsCfg == 2
MaxPlayers == 2
GameIds == {1}
UnknownGameId == 9
NamePool == <<"Ann", " ", "Cy", "Di">>
WordLengths == {2, 3}

\* uuidv4() for the i-th player of game gameId: distinct across games and players
PlayerId(gameId, i) == gameId * 10 + i
NoPlayerId == 0
NoWinner == 0

\* name.trim() || "Player"
PlayerName(name) == IF name = " " THEN "Player" ELSE name

NewPlayer(id, name) == [id |-> id, name |-> name, guesses |-> << >>, isWinner |-> FALSE]

\* request bodies: playerNames is absent, or the first n names of NamePool
Configs ==
  [maxRounds : 0..MaxRoundsCfg, wordLength : WordLengths,
   mode : {"single", "multiplayer", "absurdle"},
   hasPlayerNames : BOOLEAN, playerNames : {SubSeq(NamePool, 1, n) : n \in 0..MaxPlayers}]

ErrNamesRequired == "Player names are required for multiplayer mode"

\* the players array, or throws = TRUE
createPlayers(gameId, config) ==
  IF config.mode \in {"single", "absurdle"}
    THEN [throws |-> FALSE, players |-> <<NewPlayer(PlayerId(gameId, 1), "Player")>>]
  ELSE IF config.mode = "multiplayer" /\ config.hasPlayerNames
    THEN [throws |-> FALSE,
          players |-> [i \in 1..Len(config.playerNames) |->
                         NewPlayer(PlayerId(gameId, i), PlayerName(config.playerNames[i]))]]
  ELSE [throws |-> TRUE, players |-> << >>]

\* the ServerGameState object; answer is getRandomWord()'s result
newServerState(gameId, config, answer, players) ==
  [id |-> gameId,
   answer |-> IF config.mode = "absurdle" THEN << >> ELSE answer,
   mode |-> config.mode,
   players |-> players,
   currentPlayerIndex |-> 0,
   currentRow |-> 0,
   gameStatus |-> "playing",
   winnerId |-> NoWinner,
   maxRounds |-> config.maxRounds,
   wordLength |-> config.wordLength,
   candidateWords |-> IF config.mode = "absurdle" THEN wordList ELSE << >>]

\* mutant: the projection spreads the server object: { ...serverState, currentGuess }
toClientGameStateSpread(serverState) ==
  [f \in DOMAIN serverState \cup {"currentGuess"} |->
     IF f = "currentGuess" THEN << >> ELSE serverState[f]]

toClientGameState(serverState) ==
  [id |-> serverState.id,
   mode |-> serverState.mode,
   players |-> serverState.players,
   currentPlayerIndex |-> serverState.currentPlayerIndex,
   currentRow |-> serverState.currentRow,
   gameStatus |-> serverState.gameStatus,
   winnerId |-> serverState.winnerId,
   maxRounds |-> serverState.maxRounds,
   wordLength |-> serverState.wordLength,
   currentGuess |-> << >>]

CreateGame ==
  /\ sStage = "idle"
  /\ \E gameId \in GameIds \ DOMAIN games, config \in Configs, r \in 1..Len(wordList) :
       LET made == createPlayers(gameId, config)
           serverState == newServerState(gameId, config, UpperWord(wordList[r]), made.players)
       IN IF made.throws
            THEN /\ lastResult' = [op |-> "createGame", error |-> ErrNamesRequired,
                                   value |-> << >>]
                 /\ UNCHANGED <<games, turnLog>>
            ELSE /\ games' = [g \in DOMAIN games \cup {gameId} |->
                                IF g = gameId THEN serverState ELSE games[g]]
                 /\ turnLog' = [g \in DOMAIN games \cup {gameId} |->
                                  IF g = gameId THEN << <<0, 0>> >> ELSE turnLog[g]]
                 /\ lastResult' = [op |-> "createGame", error |-> "",
                                   value |-> [gameId |-> gameId,
                                              gameState |-> toClientGameState(serverState)]]
  /\ UNCHANGED <<harnessVars, concVars>>

----------------------------------------------------------------------------
(* submitGuess *)

ErrNotFound     == "Game not found"
ErrNotPlaying   == "Game is not in playing state"
ErrFormat       == "Invalid guess format"
ErrLength       == "Guess must be N letters long"
ErrLetters      == "Guess must contain only letters"
ErrNotWord      == "Not a valid word"
ErrTurn         == "It's NAME's turn"
ErrNoCandidates == "Invalid game state: no candidate words"
ErrNoPatterns   == "No valid patterns found"
ErrTypeError    == "TypeError: Cannot read properties of undefined"

\* String.prototype.trim
RECURSIVE TrimLeft(_)
TrimLeft(w) == IF Len(w) > 0 /\ Head(w) = " " THEN TrimLeft(Tail(w)) ELSE w
RECURSIVE TrimRight(_)
TrimRight(w) ==
  IF Len(w) > 0 /\ w[Len(w)] = " " THEN TrimRight(SubSeq(w, 1, Len(w) - 1)) ELSE w
Trim(w) == TrimRight(TrimLeft(w))

\* guess.trim().toUpperCase()
Normalize(guess) == UpperWord(Trim(guess))

\* /^[A-Z]+$/.test(normalizedGuess)
OnlyLetters(w) == Len(w) > 0 /\ \A i \in 1..Len(w) : w[i] \in UpperLetters

\* mutant: the gameStatus check is missing
validateNoStatusCheck(gs, gameId, guess, playerId) ==
  IF gameId \notin DOMAIN gs THEN ErrNotFound
  ELSE LET game == gs[gameId]
           normalizedGuess == Normalize(guess)
       IN IF guess = << >> THEN ErrFormat
          ELSE IF Len(normalizedGuess) # game.wordLength THEN ErrLength
          ELSE IF ~OnlyLetters(normalizedGuess) THEN ErrLetters
          ELSE IF ~isValidWord(normalizedGuess) THEN ErrNotWord
          ELSE IF game.mode = "multiplayer" /\ playerId # NoPlayerId
                  /\ game.currentPlayerIndex + 1 > Len(game.players) THEN ErrTypeError
          ELSE IF game.mode = "multiplayer" /\ playerId # NoPlayerId
                  /\ playerId # game.players[game.currentPlayerIndex + 1].id THEN ErrTurn
          ELSE ""

\* mutant: the turn check comes before the checks of the word
validateTurnFirst(gs, gameId, guess, playerId) ==
  IF gameId \notin DOMAIN gs THEN ErrNotFound
  ELSE LET game == gs[gameId]
           normalizedGuess == Normalize(guess)
       IN IF game.gameStatus # "playing" THEN ErrNotPlaying
          ELSE IF game.mode = "multiplayer" /\ playerId # NoPlayerId
                  /\ game.currentPlayerIndex + 1 > Len(game.players) THEN ErrTypeError
          ELSE IF game.mode = "multiplayer" /\ playerId # NoPlayerId
                  /\ playerId # game.players[game.currentPlayerIndex + 1].id THEN ErrTurn
          ELSE IF guess = << >> THEN ErrFormat
          ELSE IF Len(normalizedGuess) # game.wordLength THEN ErrLength
          ELSE IF ~OnlyLetters(normalizedGuess) THEN ErrLetters
          ELSE IF ~isValidWord(normalizedGuess) THEN ErrNotWord
          ELSE ""

\* the checks before scoring, in the order of the code; "" when all pass
\* (players[currentPlayerIndex] is undefined in a game created with no names:
\* reading its id is a TypeError)
validate(gs, gameId, guess, playerId) ==
  IF gameId \notin DOMAIN gs THEN ErrNotFound
  ELSE LET game == gs[gameId]
           normalizedGuess == Normalize(guess)
       IN IF game.gameStatus # "playing" THEN ErrNotPlaying
          ELSE IF guess = << >> THEN ErrFormat
          ELSE IF Len(normalizedGuess) # game.wordLength THEN ErrLength
          ELSE IF ~OnlyLetters(normalizedGuess) THEN ErrLetters
          ELSE IF ~isValidWord(normalizedGuess) THEN ErrNotWord
          ELSE IF game.mode = "multiplayer" /\ playerId # NoPlayerId
                  /\ game.currentPlayerIndex + 1 > Len(game.players) THEN ErrTypeError
          ELSE IF game.mode = "multiplayer" /\ playerId # NoPlayerId
                  /\ playerId # game.players[game.currentPlayerIndex + 1].id THEN ErrTurn
          ELSE ""

\* mutant: every guess is scored by the selector against the whole dictionary
ScoringPoolWholeList(game) == wordList

\* the candidate list handed to absurdleScoreGuess
ScoringPool(game) == game.candidateWords

\* mutant: candidateWords is emptied when an answer is selected
applyAbsurdleClearsPool(game, normalizedGuess, absurdleResult) ==
  IF absurdleResult.threw
    THEN [error |-> ErrNoPatterns, game |-> game, scoredGuess |-> << >>]
  ELSE IF absurdleResult.selectedAnswer # << >>
    THEN [error |-> "",
          game |-> [game EXCEPT !.candidateWords = << >>,
                                !.answer = absurdleResult.selectedAnswer],
          scoredGuess |-> scoreGuess(normalizedGuess, absurdleResult.selectedAnswer)]
  ELSE [error |-> "",
        game |-> [game EXCEPT !.candidateWords = absurdleResult.remainingWords],
        scoredGuess |-> absurdleResult.pattern]

\* mutant: candidateWords is left as it was while feedback is withheld
applyAbsurdleKeepsPool(game, normalizedGuess, absurdleResult) ==
  IF absurdleResult.threw
    THEN [error |-> ErrNoPatterns, game |-> game, scoredGuess |-> << >>]
  ELSE IF absurdleResult.selectedAnswer # << >>
    THEN [error |-> "",
          game |-> [game EXCEPT !.candidateWords = absurdleResult.remainingWords,
                                !.answer = absurdleResult.selectedAnswer],
          scoredGuess |-> scoreGuess(normalizedGuess, absurdleResult.selectedAnswer)]
  ELSE [error |-> "", game |-> game, scoredGuess |-> absurdleResult.pattern]

\* what submitGuess does with the selector's result: candidateWords is replaced,
\* and a selected answer is stored and the guess re-scored against it
applyAbsurdle(game, normalizedGuess, absurdleResult) ==
  IF absurdleResult.threw
    THEN [error |-> ErrNoPatterns, game |-> game, scoredGuess |-> << >>]
  ELSE IF absurdleResult.selectedAnswer # << >>
    THEN [error |-> "",
          game |-> [game EXCEPT !.candidateWords = absurdleResult.remainingWords,
                                !.answer = absurdleResult.selectedAnswer],
          scoredGuess |-> scoreGuess(normalizedGuess, absurdleResult.selectedAnswer)]
  ELSE [error |-> "",
        game |-> [game EXCEPT !.candidateWords = absurdleResult.remainingWords],
        scoredGuess |-> absurdleResult.pattern]

\* mutant: an Absurdle guess always goes to the selector, which picks from the
\* whole dictionary again
scoreStepReselects(game, normalizedGuess) ==
  IF game.mode = "absurdle"
    THEN IF Len(game.candidateWords) = 0
           THEN [error |-> ErrNoCandidates, game |-> game, scoredGuess |-> << >>]
           ELSE applyAbsurdle(game, normalizedGuess,
                              absurdleScoreGuess(normalizedGuess, wordList))
    ELSE [error |-> "", game |-> game,
          scoredGuess |-> scoreGuess(normalizedGuess, game.answer)]

\* the scoring step: [error, game, scoredGuess]; game carries the writes made to
\* candidateWords and answer
scoreStep(game, normalizedGuess) ==
  IF game.mode = "absurdle" /\ game.answer = << >>
    THEN IF Len(game.candidateWords) = 0
           THEN [error |-> ErrNoCandidates, game |-> game, scoredGuess |-> << >>]
           ELSE applyAbsurdle(game, normalizedGuess,
                              absurdleScoreGuess(normalizedGuess, ScoringPool(game)))
    ELSE [error |-> "", game |-> game,
          scoredGuess |-> scoreGuess(normalizedGuess, game.answer)]

\* mutant: the guess is pushed onto the first player's list, whoever's turn it is
recordGuessFirstPlayer(game, normalizedGuess, scoredGuess) ==
  LET isWin == IF game.mode = "absurdle"
                 THEN game.answer # << >> /\ normalizedGuess = game.answer
                 ELSE normalizedGuess = game.answer
  IN [game EXCEPT !.players[1].guesses = Append(@, scoredGuess),
                  !.players[1].isWinner = IF isWin THEN TRUE ELSE @]

\* mutant: a correct guess is not marked once another player is already a winner
recordGuessSingleWinner(game, normalizedGuess, scoredGuess) ==
  LET p == game.currentPlayerIndex + 1
      isWin == /\ normalizedGuess = game.answer
               /\ \A i \in 1..Len(game.players) : ~game.players[i].isWinner
  IN [game EXCEPT !.players[p].guesses = Append(@, scoredGuess),
                  !.players[p].isWinner = IF isWin THEN TRUE ELSE @]

\* mutant: the Absurdle win test is inverted on the answer being selected
recordGuessWinUnresolved(game, normalizedGuess, scoredGuess) ==
  LET p == game.currentPlayerIndex + 1
      isWin == IF game.mode = "absurdle"
                 THEN game.answer = << >> \/ normalizedGuess = game.answer
                 ELSE normalizedGuess = game.answer
  IN [game EXCEPT !.players[p].guesses = Append(@, scoredGuess),
                  !.players[p].isWinner = IF isWin THEN TRUE ELSE @]

\* mutant: the scored guess is pushed twice
recordGuessTwice(game, normalizedGuess, scoredGuess) ==
  LET p == game.currentPlayerIndex + 1
      isWin == IF game.mode = "absurdle"
                 THEN game.answer # << >> /\ normalizedGuess = game.answer
                 ELSE normalizedGuess = game.answer
  IN [game EXCEPT !.players[p].guesses = Append(Append(@, scoredGuess), scoredGuess),
                  !.players[p].isWinner = IF isWin THEN TRUE ELSE @]

\* mutant: the scored guess is put at the front of the list (unshift for push)
recordGuessPrepend(game, normalizedGuess, scoredGuess) ==
  LET p == game.currentPlayerIndex + 1
      isWin == IF game.mode = "absurdle"
                 THEN game.answer # << >> /\ normalizedGuess = game.answer
                 ELSE normalizedGuess = game.answer
  IN [game EXCEPT !.players[p].guesses = <<scoredGuess>> \o @,
                  !.players[p].isWinner = IF isWin THEN TRUE ELSE @]

\* currentPlayer.guesses.push(scoredGuess); if (isWin) currentPlayer.isWinner = true
recordGuess(game, normalizedGuess, scoredGuess) ==
  LET p == game.currentPlayerIndex + 1
      isWin == IF game.mode = "absurdle"
                 THEN game.answer # << >> /\ normalizedGuess = game.answer
                 ELSE normalizedGuess = game.answer
  IN [game EXCEPT !.players[p].guesses = Append(@, scoredGuess),
                  !.players[p].isWinner = IF isWin THEN TRUE ELSE @]

\* players.filter(player => player.isWinner)
Winners(players) == SelectSeq(players, LAMBDA pl : pl.isWinner)

\* mutant: the row is incremented on every turn, not only when the index wraps
advanceMultiplayerRowEveryTurn(game) ==
  LET nextIndex == (game.currentPlayerIndex + 1) % Len(game.players)
      nextRow == game.currentRow + 1
      moved == [game EXCEPT !.currentPlayerIndex = nextIndex, !.currentRow = nextRow]
      winners == Winners(moved.players)
  IN IF nextIndex = 0 \/ moved.gameStatus # "playing"
       THEN IF Len(winners) > 0
              THEN [moved EXCEPT !.gameStatus = "won", !.winnerId = winners[1].id]
            ELSE IF moved.currentRow >= moved.maxRounds
              THEN [moved EXCEPT !.gameStatus = "lost"]
            ELSE moved
       ELSE moved

\* mutant: the game is evaluated as soon as any player has won
advanceMultiplayerEvaluateOnWin(game) ==
  LET nextIndex == (game.currentPlayerIndex + 1) % Len(game.players)
      nextRow == IF nextIndex = 0 THEN game.currentRow + 1 ELSE game.currentRow
      moved == [game EXCEPT !.currentPlayerIndex = nextIndex, !.currentRow = nextRow]
      winners == Winners(moved.players)
  IN IF nextIndex = 0 \/ Len(winners) > 0
       THEN IF Len(winners) > 0
              THEN [moved EXCEPT !.gameStatus = "won", !.winnerId = winners[1].id]
            ELSE IF moved.currentRow >= moved.maxRounds
              THEN [moved EXCEPT !.gameStatus = "lost"]
            ELSE moved
       ELSE moved

\* mutant: winnerId is taken from the last player to guess in the round
advanceMultiplayerWinnerIsLast(game) ==
  LET nextIndex == (game.currentPlayerIndex + 1) % Len(game.players)
      nextRow == IF nextIndex = 0 THEN game.currentRow + 1 ELSE game.currentRow
      moved == [game EXCEPT !.currentPlayerIndex = nextIndex, !.currentRow = nextRow]
      winners == Winners(moved.players)
  IN IF nextIndex = 0 \/ moved.gameStatus # "playing"
       THEN IF Len(winners) > 0
              THEN [moved EXCEPT !.gameStatus = "won",
                                 !.winnerId = moved.players[Len(moved.players)].id]
            ELSE IF moved.currentRow >= moved.maxRounds
              THEN [moved EXCEPT !.gameStatus = "lost"]
            ELSE moved
       ELSE moved

\* mutant: a winning guess closes the round: the players still to guess in it
\* are skipped and the game is evaluated at once
advanceMultiplayerWinClosesRound(game) ==
  LET winners == Winners(game.players)
      nextIndex == IF Len(winners) > 0 THEN 0
                   ELSE (game.currentPlayerIndex + 1) % Len(game.players)
      nextRow == IF nextIndex = 0 THEN game.currentRow + 1 ELSE game.currentRow
      moved == [game EXCEPT !.currentPlayerIndex = nextIndex, !.currentRow = nextRow]
  IN IF nextIndex = 0 \/ moved.gameStatus # "playing"
       THEN IF Len(winners) > 0
              THEN [moved EXCEPT !.gameStatus = "won", !.winnerId = winners[1].id]
            ELSE IF moved.currentRow >= moved.maxRounds
              THEN [moved EXCEPT !.gameStatus = "lost"]
            ELSE moved
       ELSE moved

\* the multiplayer branch of "advance turn/round"
advanceMultiplayer(game) ==
  LET nextIndex == (game.currentPlayerIndex + 1) % Len(game.players)
      nextRow == IF nextIndex = 0 THEN game.currentRow + 1 ELSE game.currentRow
      moved == [game EXCEPT !.currentPlayerIndex = nextIndex, !.currentRow = nextRow]
      winners == Winners(moved.players)
  IN IF nextIndex = 0 \/ moved.gameStatus # "playing"
       THEN IF Len(winners) > 0
              THEN [moved EXCEPT !.gameStatus = "won", !.winnerId = winners[1].id]
            ELSE IF moved.currentRow >= moved.maxRounds
              THEN [moved EXCEPT !.gameStatus = "lost"]
            ELSE moved
       ELSE moved

\* mutant: the loss check uses > where the code has >=
advanceSingleLateLoss(game, wasPlayerIndex) ==
  LET currentPlayer == game.players[wasPlayerIndex + 1]
  IN IF currentPlayer.isWinner
       THEN [game EXCEPT !.gameStatus = "won", !.winnerId = currentPlayer.id]
       ELSE LET rowed == [game EXCEPT !.currentRow = @ + 1]
            IN IF rowed.currentRow > rowed.maxRounds
                 THEN [rowed EXCEPT !.gameStatus = "lost"]
                 ELSE rowed

\* mutant: the row is incremented on a winning guess too
advanceSingleRowOnWin(game, wasPlayerIndex) ==
  LET currentPlayer == game.players[wasPlayerIndex + 1]
      rowed == [game EXCEPT !.currentRow = @ + 1]
  IN IF currentPlayer.isWinner
       THEN [rowed EXCEPT !.gameStatus = "won", !.winnerId = currentPlayer.id]
     ELSE IF rowed.currentRow >= rowed.maxRounds
       THEN [rowed EXCEPT !.gameStatus = "lost"]
     ELSE rowed

\* the single-player branch of "advance turn/round"
advanceSingle(game, wasPlayerIndex) ==
  LET currentPlayer == game.players[wasPlayerIndex + 1]
  IN IF currentPlayer.isWinner
       THEN [game EXCEPT !.gameStatus = "won", !.winnerId = currentPlayer.id]
       ELSE LET rowed == [game EXCEPT !.currentRow = @ + 1]
            IN IF rowed.currentRow >= rowed.maxRounds
                 THEN [rowed EXCEPT !.gameStatus = "lost"]
                 ELSE rowed

\* "advance turn/round", by mode
advance(recorded) ==
  IF recorded.mode = "multiplayer"
    THEN advanceMultiplayer(recorded)
    ELSE advanceSingle(recorded, recorded.currentPlayerIndex)

\* after scoring: a game with no player at currentPlayerIndex throws on
\* currentPlayer.guesses; game is the stored object as this leaves it
finishSubmit(normalizedGuess, scored) ==
  IF scored.error # ""
    THEN [error |-> scored.error, found |-> TRUE, game |-> scored.game,
          scoredGuess |-> << >>]
  ELSE IF scored.game.currentPlayerIndex + 1 > Len(scored.game.players)
    THEN [error |-> ErrTypeError, found |-> TRUE, game |-> scored.game,
          scoredGuess |-> << >>]
  ELSE [error |-> "", found |-> TRUE,
        game |-> advance(recordGuess(scored.game, normalizedGuess, scored.scoredGuess)),
        scoredGuess |-> scored.scoredGuess]

\* mutant: the turn check runs after the guess has been scored and recorded
afterValidateLateTurnCheck(gs, gameId, normalizedGuess, failed) ==
  IF failed = ErrNotFound
    THEN [error |-> failed, found |-> FALSE, game |-> << >>, scoredGuess |-> << >>]
  ELSE IF failed = ErrTurn
    THEN [error |-> failed, found |-> TRUE,
          game |-> finishSubmit(normalizedGuess, scoreStep(gs[gameId], normalizedGuess)).game,
          scoredGuess |-> << >>]
  ELSE IF failed # ""
    THEN [error |-> failed, found |-> TRUE, game |-> gs[gameId], scoredGuess |-> << >>]
  ELSE finishSubmit(normalizedGuess, scoreStep(gs[gameId], normalizedGuess))

afterValidate(gs, gameId, normalizedGuess, failed) ==
  IF failed = ErrNotFound
    THEN [error |-> failed, found |-> FALSE, game |-> << >>, scoredGuess |-> << >>]
  ELSE IF failed # ""
    THEN [error |-> failed, found |-> TRUE, game |-> gs[gameId], scoredGuess |-> << >>]
  ELSE finishSubmit(normalizedGuess, scoreStep(gs[gameId], normalizedGuess))

\* the whole call: [error, found, game, scoredGuess]; game is the stored object as
\* the call leaves it, also when it throws
submitGuess(gs, gameId, guess, playerId) ==
  afterValidate(gs, gameId, Normalize(guess), validate(gs, gameId, guess, playerId))

\* raw guesses a client may send
RawGuesses ==
  { <<" ", "a", "b", " ">>, <<"B", "A">>, <<"c", "C">>,  \* dictionary words, as typed
    <<"B", "B">>,                                        \* not in the dictionary
    <<"A", "B", "A">>, <<" ", " ">>,                     \* wrong length
    <<"A", "1">>,                                        \* not only letters
    << >> }                                              \* falsy

\* playerId of a request: absent, a player of this game, or an id of no player
ForeignPlayerId == PlayerId(UnknownGameId, 1)
PlayerIdInputs(gs, gameId) ==
  IF gameId \in DOMAIN gs
    THEN {NoPlayerId, ForeignPlayerId}
           \cup {gs[gameId].players[i].id : i \in 1..Len(gs[gameId].players)}
    ELSE {NoPlayerId}

\* mutant: the updated game object is stored under every session id
SubmitEffectAllGames(gameId, guess, playerId, res) ==
  /\ games' = IF res.found THEN [g \in DOMAIN games |-> res.game] ELSE games
  /\ turnLog' = IF res.error = ""
                  THEN [turnLog EXCEPT ![gameId] =
                          Append(@, <<res.game.currentPlayerIndex, res.game.currentRow>>)]
                  ELSE turnLog
  /\ lastResult' =
       [op |-> "submitGuess", error |-> res.error,
        value |-> IF res.error = ""
                    THEN [gameId |-> gameId, playerId |-> playerId,
                          normalizedGuess |-> Normalize(guess),
                          gameState |-> toClientGameState(res.game),
                          scoredGuess |-> res.scoredGuess]
                    ELSE << >>]

\* the effect of one call on the store, the log and the reply
SubmitEffect(gameId, guess, playerId, res) ==
  /\ games' = IF res.found THEN [games EXCEPT ![gameId] = res.game] ELSE games
  /\ turnLog' = IF res.error = ""
                  THEN [turnLog EXCEPT ![gameId] =
                          Append(@, <<res.game.currentPlayerIndex, res.game.currentRow>>)]
                  ELSE turnLog
  /\ lastResult' =
       [op |-> "submitGuess", error |-> res.error,
        value |-> IF res.error = ""
                    THEN [gameId |-> gameId, playerId |-> playerId,
                          normalizedGuess |-> Normalize(guess),
                          gameState |-> toClientGameState(res.game),
                          scoredGuess |-> res.scoredGuess]
                    ELSE << >>]

SubmitGuess ==
  /\ sStage = "idle"
  /\ \E gameId \in GameIds \cup {UnknownGameId}, guess \in RawGuesses :
     \E playerId \in PlayerIdInputs(games, gameId) :
       SubmitEffect(gameId, guess, playerId, submitGuess(games, gameId, guess, playerId))
  /\ UNCHANGED <<harnessVars, concVars>>

----------------------------------------------------------------------------
(* getGame, getGameAnswer *)

Null == [null |-> TRUE]

getGame(gs, gameId) ==
  IF gameId \in DOMAIN gs THEN toClientGameState(gs[gameId]) ELSE Null

\* mutant: the status is not checked for Absurdle games
getGameAnswerAbsurdleAnyStatus(gs, gameId) ==
  IF gameId \notin DOMAIN gs THEN << >>
  ELSE LET game == gs[gameId]
       IN IF game.mode = "absurdle"
            THEN IF game.answer # << >> THEN game.answer
                 ELSE IF Len(game.candidateWords) = 1 THEN game.candidateWords[1]
                 ELSE << >>
          ELSE IF game.gameStatus = "playing" THEN << >>
          ELSE game.answer

\* mutant: an unselected Absurdle answer is stood in for by the first candidate
getGameAnswerFirstCandidate(gs, gameId) ==
  IF gameId \notin DOMAIN gs THEN << >>
  ELSE LET game == gs[gameId]
       IN IF game.gameStatus = "playing" THEN << >>
          ELSE IF game.mode = "absurdle"
            THEN IF game.answer # << >> THEN game.answer
                 ELSE IF Len(game.candidateWords) >= 1 THEN game.candidateWords[1]
                 ELSE << >>
          ELSE game.answer

\* a null answer is written << >>
getGameAnswer(gs, gameId) ==
  IF gameId \notin DOMAIN gs THEN << >>
  ELSE LET game == gs[gameId]
       IN IF game.gameStatus = "playing" THEN << >>
          ELSE IF game.mode = "absurdle"
            THEN IF game.answer # << >> THEN game.answer
                 ELSE IF Len(game.candidateWords) = 1 THEN game.candidateWords[1]
                 ELSE << >>
          ELSE game.answer

\* mutant: reading a finished game removes it from the store
GetGameEvictsFinished ==
  /\ sStage = "idle"
  /\ \E gameId \in GameIds \cup {UnknownGameId} :
       /\ lastResult' = [op |-> "getGame", error |-> "",
                         value |-> [gameId |-> gameId, gameState |-> getGame(games, gameId)]]
       /\ games' = [g \in {h \in DOMAIN games :
                             h # gameId \/ games[h].gameStatus = "playing"} |-> games[g]]
       /\ turnLog' = [g \in DOMAIN games' |-> turnLog[g]]
  /\ UNCHANGED <<harnessVars, concVars>>

GetGame ==
  /\ sStage = "idle"
  /\ \E gameId \in GameIds \cup {UnknownGameId} :
       lastResult' = [op |-> "getGame", error |-> "",
                      value |-> [gameId |-> gameId, gameState |-> getGame(games, gameId)]]
  /\ UNCHANGED <<games, turnLog, harnessVars, concVars>>

GetGameAnswer ==
  /\ sStage = "idle"
  /\ \E gameId \in GameIds \cup {UnknownGameId} :
       lastResult' = [op |-> "getGameAnswer", error |-> "",
                      value |-> [gameId |-> gameId, answer |-> getGameAnswer(games, gameId)]]
  /\ UNCHANGED <<games, turnLog, harnessVars, concVars>>

----------------------------------------------------------------------------
(* The controller: HTTP status of each reply *)

HttpOk == 200
HttpCreated == 201
HttpBadRequest == 400
HttpNotFound == 404
HttpServerError == 500

ErrRequired == "Game ID and guess are required"
ErrAnswerUnavailable == "Game not found or still in progress"

\* the text of each error message, word by word (N: the word length, NAME's:
\* the current player's name)
MessageWords(error) ==
  CASE error = ErrNotFound      -> <<"Game", "not", "found">>
    [] error = ErrNotPlaying    -> <<"Game", "is", "not", "in", "playing", "state">>
    [] error = ErrFormat        -> <<"Invalid", "guess", "format">>
    [] error = ErrLength        -> <<"Guess", "must", "be", "N", "letters", "long">>
    [] error = ErrLetters       -> <<"Guess", "must", "contain", "only", "letters">>
    [] error = ErrNotWord       -> <<"Not", "a", "valid", "word">>
    [] error = ErrTurn          -> <<"It's", "NAME's", "turn">>
    [] error = ErrNoCandidates  -> <<"Invalid", "game", "state:", "no", "candidate", "words">>
    [] error = ErrNoPatterns    -> <<"No", "valid", "patterns", "found">>
    [] error = ErrTypeError     -> <<"Cannot", "read", "properties", "of", "undefined">>
    [] error = ErrNamesRequired ->
         <<"Player", "names", "are", "required", "for", "multiplayer", "mode">>
    [] OTHER -> << >>

\* error.message.includes(phrase)
Includes(words, phrase) ==
  \E i \in 0..(Len(words) - Len(phrase)) :
    \A k \in 1..Len(phrase) : words[i + k] = phrase[k]

\* createGame handler: 201, or 500 for whatever the service throws
createGameStatus(error) == IF error = "" THEN HttpCreated ELSE HttpServerError

\* the catch block of the submitGuess handler
submitErrorStatus(error) ==
  IF error = ErrNotFound THEN HttpNotFound
  ELSE IF \/ Includes(MessageWords(error), <<"must", "be">>)
          \/ Includes(MessageWords(error), <<"Not", "a", "valid">>)
          \/ Includes(MessageWords(error), <<"contain", "only">>)
          \/ Includes(MessageWords(error), <<"not", "in", "playing">>)
          \/ Includes(MessageWords(error), <<"turn">>)
    THEN HttpBadRequest
  ELSE HttpServerError

\* submitGuess handler: a missing guess is refused before the service is called
\* (!gameId is never true of the ids used here)
submitGuessStatus(guess, error) ==
  IF guess = << >> THEN HttpBadRequest
  ELSE IF error = "" THEN HttpOk
  ELSE submitErrorStatus(error)

\* getGame handler
getGameStatus(gameState) == IF gameState = Null THEN HttpNotFound ELSE HttpOk

\* getGameAnswer handler
getGameAnswerStatus(answer) == IF answer = << >> THEN HttpNotFound ELSE HttpOk

----------------------------------------------------------------------------
(* The client: what GameGrid and the keyboard show of a ClientGameState *)

\* GameGrid.renderPlayerGrid: players.every(p => p.guesses.length > round)
bothPlayersHaveGuess(players, round) ==
  \A j \in 1..Len(players) : Len(players[j].guesses) > round

\* mutant: a tile shows the letter's state as soon as the guess is there
tileStateAsScored(players, round, letter) == letter.state

\* the state handed to LetterTile for a letter of the guess of a round
tileState(players, round, letter) ==
  IF bothPlayersHaveGuess(players, round) THEN letter.state ELSE "empty"

\* players.map(player => player.guesses[round]).filter(guess => guess !== undefined)
\* (round counts from 0; an undefined entry is written << >>)
roundGuesses(players, round) ==
  SelectSeq([j \in 1..Len(players) |->
               IF Len(players[j].guesses) > round
                 THEN players[j].guesses[round + 1] ELSE << >>],
            LAMBDA guess : guess # << >>)

\* the for loop of the keyboard effect, from a round on
RECURSIVE completedGuesses(_, _)
completedGuesses(gameState, round) ==
  IF round >= gameState.maxRounds THEN << >>
  ELSE (IF Len(roundGuesses(gameState.players, round)) = Len(gameState.players)
          THEN roundGuesses(gameState.players, round) ELSE << >>)
         \o completedGuesses(gameState, round + 1)

\* allGuesses of the keyboard effect
allGuesses(gameState) ==
  IF gameState.mode = "multiplayer" THEN completedGuesses(gameState, 0)
  ELSE IF Len(gameState.players) > 0 THEN gameState.players[1].guesses
  ELSE << >>

\* updateKeyboardState: one letter of one guess; "none" is an absent key
keyStateLetter(keyState, letter) ==
  IF letter.state = "hit"
    THEN [keyState EXCEPT ![ToUpper(letter.char)] = "hit"]
  ELSE IF letter.state = "present" /\ keyState[ToUpper(letter.char)] # "hit"
    THEN [keyState EXCEPT ![ToUpper(letter.char)] = "present"]
  ELSE IF letter.state = "miss" /\ keyState[ToUpper(letter.char)] = "none"
    THEN [keyState EXCEPT ![ToUpper(letter.char)] = "miss"]
  ELSE keyState

RECURSIVE keyStateGuess(_, _, _)
keyStateGuess(keyState, guess, i) ==
  IF i > Len(guess) THEN keyState
  ELSE keyStateGuess(keyStateLetter(keyState, guess[i]), guess, i + 1)

RECURSIVE keyStateGuesses(_, _, _)
keyStateGuesses(keyState, guesses, n) ==
  IF n > Len(guesses) THEN keyState
  ELSE keyStateGuesses(keyStateGuess(keyState, guesses[n], 1), guesses, n + 1)

updateKeyboardState(guesses) ==
  keyStateGuesses([c \in UpperLetters |-> "none"], guesses, 1)

Init ==
  /\ IdleGames
  /\ sGuess = << >>
  /\ sAnswer = << >>
  /\ sPool = << >>
  /\ sOut = << >>
  /\ sStage = "idle"

Next == CreateGame \/ SubmitGuess \/ GetGame \/ GetGameAnswer

Spec == Init /\ [][Next]_vars

----------------------------------------------------------------------------
(* Scorer harness: score one guess against one answer *)

MaxLen == 3
ScoreLetters == {"A", "L", "M"}
WordsOfLen(S, n) == [1..n -> S]
LLAMA == <<"L", "L", "A", "M", "A">>
ALLOY == <<"A", "L", "L", "O", "Y">>

ScoreInputs ==
  UNION {WordsOfLen(ScoreLetters, n) \X WordsOfLen(ScoreLetters, n) : n \in 1..MaxLen}
    \cup {<<LLAMA, ALLOY>>, <<ALLOY, LLAMA>>, <<LLAMA, LLAMA>>}

InitScore ==
  /\ IdleGames
  /\ \E p \in ScoreInputs : sGuess = p[1] /\ sAnswer = p[2]
  /\ sPool = << >>
  /\ sOut = << >>
  /\ sStage = "input"

ScoreStep ==
  /\ sStage = "input"
  /\ sOut' = scoreGuess(sGuess, sAnswer)
  /\ sStage' = "done"
  /\ UNCHANGED <<sGuess, sAnswer, sPool, gameVars, concVars>>

NextScore == ScoreStep

SpecScore == InitScore /\ [][NextScore]_vars

----------------------------------------------------------------------------
(* Selector harness: one call of absurdleScoreGuess on one pool *)

MaxPool == 3
SelectLetters == {"A", "B", "C"}
SelectWords == WordsOfLen(SelectLetters, 2)
Range(f) == {f[i] : i \in DOMAIN f}
IsInjective(f) == \A i, j \in DOMAIN f : f[i] = f[j] => i = j

\* candidate lists: word lists without repetition, the empty list included
Pools ==
  UNION {{q \in [1..n -> SelectWords] : IsInjective(q)} : n \in 0..MaxPool}

InitSelect ==
  /\ IdleGames
  /\ sGuess \in SelectWords
  /\ sPool \in Pools
  /\ sAnswer = << >>
  /\ sOut = << >>
  /\ sStage = "input"

SelectStep ==
  /\ sStage = "input"
  /\ sOut' = absurdleScoreGuess(sGuess, sPool)
  /\ sStage' = "done"
  /\ UNCHANGED <<sGuess, sAnswer, sPool, gameVars, concVars>>

NextSelect == SelectStep

SpecSelect == InitSelect /\ [][NextSelect]_vars

----------------------------------------------------------------------------
(* Helpfulness harness: scorePattern on a pair of patterns, and the selector *)
(* on pools of two-letter and of five-letter words                           *)

\* wordLength of the default configuration
DefaultWordLength == 5

\* the letter states scoreGuess produces
PatternStates == {"hit", "present", "miss"}

\* every pattern of 1..DefaultWordLength letters (scorePattern reads only the states)
Patterns ==
  UNION {[1..n -> {Letter("A", st) : st \in PatternStates}] : n \in 1..DefaultWordLength}

\* five-letter words: two rotations of ABCLM, and words sharing its first letters
ABCLM == <<"A", "B", "C", "L", "M">>
BCLMA == <<"B", "C", "L", "M", "A">>
AYYYY == <<"A", "Y", "Y", "Y", "Y">>
OOOOO == <<"O", "O", "O", "O", "O">>
FiveLetterWords == {ABCLM, BCLMA, AYYYY, OOOOO}
FivePools ==
  UNION {{q \in [1..n -> FiveLetterWords] : IsInjective(q)} : n \in 0..MaxPool}

InitPattern ==
  /\ IdleGames
  /\ sGuess = << >>
  /\ sAnswer = << >>
  /\ sPool \in Patterns \X Patterns
  /\ sOut = << >>
  /\ sStage = "patterns"

InitFive ==
  /\ IdleGames
  /\ sGuess \in FiveLetterWords
  /\ sPool \in FivePools
  /\ sAnswer = << >>
  /\ sOut = << >>
  /\ sStage = "input"

\* scorePattern applied to each pattern of the pair
PatternStep ==
  /\ sStage = "patterns"
  /\ sOut' = <<scorePattern(sPool[1]), scorePattern(sPool[2])>>
  /\ sStage' = "scored"
  /\ UNCHANGED <<sGuess, sAnswer, sPool, gameVars, concVars>>

InitHelp == InitSelect \/ InitFive \/ InitPattern

NextHelp == SelectStep \/ PatternStep

SpecHelp == InitHelp /\ [][NextHelp]_vars

----------------------------------------------------------------------------
(* Concurrent requests: submitGuess requests arrive at any time and wait in  *)
(* the event loop; the handler is a synchronous function, so it runs to      *)
(* completion for one request before the next one starts.                    *)

MaxRequests == 3

\* the games the requests are sent to: created by createGame from one of these
ConcConfigs ==
  {c \in Configs : /\ c.maxRounds = MaxRoundsCfg
                   /\ c.wordLength = 2
                   /\ c.mode \in {"single", "multiplayer"}
                   /\ c.hasPlayerNames
                   /\ c.playerNames = SubSeq(NamePool, 1, 2)}
ConcGuesses == { <<"A", "B">>, <<"c", "C">> }

Arrived == Cardinality(inflight) + Len(served)

InitConc ==
  /\ \E config \in ConcConfigs, r \in 1..Len(wordList) :
       LET serverState == newServerState(1, config, UpperWord(wordList[r]),
                                         createPlayers(1, config).players)
       IN /\ games = [g \in {1} |-> serverState]
          /\ lastResult = [op |-> "createGame", error |-> "",
                           value |-> [gameId |-> 1,
                                      gameState |-> toClientGameState(serverState)]]
  /\ turnLog = [g \in {1} |-> << <<0, 0>> >>]
  /\ origin = games
  /\ inflight = {}
  /\ served = << >>
  /\ sGuess = << >>
  /\ sAnswer = << >>
  /\ sPool = << >>
  /\ sOut = << >>
  /\ sStage = "idle"

\* a request reaches the server while others may still be waiting
Arrive ==
  /\ Arrived < MaxRequests
  /\ \E gameId \in DOMAIN games, guess \in ConcGuesses :
     \E playerId \in PlayerIdInputs(games, gameId) \ {ForeignPlayerId} :
       inflight' = inflight \cup {[rid |-> Arrived + 1, gameId |-> gameId,
                                   guess |-> guess, playerId |-> playerId]}
  /\ UNCHANGED <<gameVars, harnessVars, origin, served>>

\* what the log keeps of a handled request
ServedEntry(req, res) ==
  [rid |-> req.rid, gameId |-> req.gameId, guess |-> req.guess,
   playerId |-> req.playerId, error |-> res.error,
   turn |-> <<games[req.gameId].currentPlayerIndex, games[req.gameId].currentRow>>]

\* mutant: two handlers overlap: both read the game before either has written
\* it back, and the second write replaces the first
ServeOverlapping ==
  /\ \E req \in inflight, other \in inflight :
       /\ other.rid # req.rid
       /\ other.gameId = req.gameId
       /\ SubmitEffect(req.gameId, req.guess, req.playerId,
                       submitGuess(games, req.gameId, req.guess, req.playerId))
       /\ inflight' = inflight \ {req, other}
       /\ served' = Append(Append(served,
                        ServedEntry(other, submitGuess(games, other.gameId, other.guess,
                                                       other.playerId))),
                        ServedEntry(req, submitGuess(games, req.gameId, req.guess,
                                                     req.playerId)))
  /\ UNCHANGED <<harnessVars, origin>>

\* the event loop hands one waiting request to the handler, which runs
\* submitGuess from start to end
Serve ==
  /\ \E req \in inflight :
       /\ SubmitEffect(req.gameId, req.guess, req.playerId,
                       submitGuess(games, req.gameId, req.guess, req.playerId))
       /\ inflight' = inflight \ {req}
       /\ served' = Append(served,
                           ServedEntry(req, submitGuess(games, req.gameId, req.guess,
                                                        req.playerId)))
  /\ UNCHANGED <<harnessVars, origin>>

NextConc == Arrive \/ Serve

SpecConc == InitConc /\ [][NextConc]_vars

----------------------------------------------------------------------------
(* Two sessions in the store: guesses are submitted to either of them *)

TwoGameIds == {1, 2}

\* the round limit the two sessions are created with
MaxRoundsTwo == 1

\* the configurations the two games are created from; each game's answer is
\* any word of the list (getRandomWord)
TwoConfigs ==
  {c \in Configs : /\ c.maxRounds = MaxRoundsTwo
                   /\ c.wordLength = 2
                   /\ c.hasPlayerNames
                   /\ c.playerNames = SubSeq(NamePool, 1, 2)}
TwoGuesses == { <<"A", "B">>, <<"c", "C">>, <<"A", "1">> }

\* the store after two createGame calls
TwoGames(config1, answer1, config2, answer2) ==
  [g \in TwoGameIds |->
     IF g = 1
       THEN newServerState(1, config1, answer1, createPlayers(1, config1).players)
       ELSE newServerState(2, config2, answer2, createPlayers(2, config2).players)]

InitTwo ==
  /\ \E config1 \in TwoConfigs, config2 \in TwoConfigs :
     \E r1 \in 1..Len(wordList), r2 \in 1..Len(wordList) :
       games = TwoGames(config1, UpperWord(wordList[r1]), config2, UpperWord(wordList[r2]))
  /\ lastResult = [op |-> "createGame", error |-> "",
                   value |-> [gameId |-> 2, gameState |-> toClientGameState(games[2])]]
  /\ turnLog = [g \in TwoGameIds |-> << <<0, 0>> >>]
  /\ origin = << >>
  /\ inflight = {}
  /\ served = << >>
  /\ sGuess = << >>
  /\ sAnswer = << >>
  /\ sPool = << >>
  /\ sOut = << >>
  /\ sStage = "idle"

\* one submitGuess call addressed to either session or to no session
SubmitTwo ==
  /\ \E gameId \in DOMAIN games \cup {UnknownGameId}, guess \in TwoGuesses :
     \E playerId \in PlayerIdInputs(games, gameId) \ {ForeignPlayerId} :
       SubmitEffect(gameId, guess, playerId, submitGuess(games, gameId, guess, playerId))
  /\ UNCHANGED <<harnessVars, concVars>>

NextTwo == SubmitTwo

SpecTwo == InitTwo /\ [][NextTwo]_vars

----------------------------------------------------------------------------
(* Counting helpers for the scorer's properties *)

CountIn(w, c) == Cardinality({i \in 1..Len(w) : w[i] = c})
Marked(pattern, c) ==
  Cardinality({i \in 1..Len(pattern) :
                 pattern[i].char = c /\ pattern[i].state \in {"hit", "present"}})
Min2(a, b) == IF a <= b THEN a ELSE b

\* C1: for every letter c, the positions of score(guess, answer) that hold c
\* with verdict hit or present number at most min(count of c in the guess,
\* count of c in the answer).
C1_LetterConservation ==
  sStage = "done" =>
    \A c \in UpperLetters :
      Marked(sOut, c) <= Min2(CountIn(sGuess, c), CountIn(sAnswer, c))

\* the guess repeats a letter more often than the answer holds it, and the
\* scorer has marked exactly as many as the answer holds
C1_Witness ==
  /\ sStage = "done"
  /\ \E c \in UpperLetters :
       /\ CountIn(sGuess, c) > CountIn(sAnswer, c)
       /\ CountIn(sAnswer, c) > 0
       /\ Marked(sOut, c) = CountIn(sAnswer, c)
       /\ \E i \in 1..Len(sOut) : sOut[i].char = c /\ sOut[i].state = "miss"

\* C2: score(W, W) marks every position hit.
C2_SelfScoreAllHit ==
  (sStage = "done" /\ sGuess = sAnswer) =>
    /\ Len(sOut) = Len(sGuess)
    /\ \A i \in 1..Len(sOut) : sOut[i] = Letter(sGuess[i], "hit")

C2_Witness ==
  /\ sStage = "done"
  /\ sGuess = sAnswer
  /\ sGuess = LLAMA
  /\ \A i \in 1..Len(sOut) : sOut[i].state = "hit"

\* The two-pass reference, position by position: i is a hit exactly when the
\* letters agree; a non-hit i is present exactly when the non-hit occurrences
\* of its letter to its left are fewer than the answer's occurrences of that
\* letter not consumed by hits.
RefIsHit(g, a, i) == g[i] = a[i]
RefHitsOf(g, a, c) == Cardinality({j \in 1..Len(g) : g[j] = c /\ RefIsHit(g, a, j)})
RefEarlier(g, a, i) ==
  Cardinality({j \in 1..(i - 1) : g[j] = g[i] /\ ~RefIsHit(g, a, j)})
RefVerdict(g, a, i) ==
  IF RefIsHit(g, a, i) THEN "hit"
  ELSE IF RefEarlier(g, a, i) < CountIn(a, g[i]) - RefHitsOf(g, a, g[i]) THEN "present"
  ELSE "miss"
RefScore(g, a) == [i \in 1..Len(g) |-> Letter(g[i], RefVerdict(g, a, i))]

LlamaAlloyPattern ==
  <<Letter("L", "present"), Letter("L", "hit"), Letter("A", "present"),
    Letter("M", "miss"), Letter("A", "miss")>>

\* C3: score(guess, answer) equals the two-pass reference; LLAMA against ALLOY
\* yields [present, hit, present, miss, miss]; no position of a scorer result
\* is left pending ("empty").
C3_TwoPassReference ==
  sStage = "done" =>
    /\ sOut = RefScore(sGuess, sAnswer)
    /\ ((sGuess = LLAMA /\ sAnswer = ALLOY) => sOut = LlamaAlloyPattern)
    /\ \A i \in 1..Len(sOut) : sOut[i].state \in {"hit", "present", "miss"}

\* the LLAMA / ALLOY fixture has been scored: a hit consumed one L before the
\* earlier L was marked present, and the second A found no count left
C3_Witness ==
  /\ sStage = "done"
  /\ sGuess = LLAMA
  /\ sAnswer = ALLOY
  /\ sOut[1].state = "present"
  /\ sOut[2].state = "hit"
  /\ sOut[5].state = "miss"

----------------------------------------------------------------------------
(* Properties of the selector *)

Helpfulness(guess, w) == scorePattern(scoreGuess(guess, w))
MinHelpfulness(guess, pool) ==
  CHOOSE m \in {Helpfulness(guess, pool[i]) : i \in DOMAIN pool} :
    \A i \in DOMAIN pool : m <= Helpfulness(guess, pool[i])
Attaining(guess, pool) ==
  {i \in DOMAIN pool : Helpfulness(guess, pool[i]) = MinHelpfulness(guess, pool)}
Resolved(out) == out.selectedAnswer # << >>

\* C4: on a non-empty pool the selector resolves an answer exactly when the
\* minimum helpfulness is > 0, or is 0 and attained by exactly one candidate;
\* the resolved answer attains the minimum and the returned pattern is that
\* candidate's true score.
C4_ForcedResolution ==
  (sStage = "done" /\ sPool # << >>) =>
    LET m == MinHelpfulness(sGuess, sPool)
    IN /\ ~sOut.threw
       /\ Resolved(sOut) <=> (m > 0 \/ (m = 0 /\ Cardinality(Attaining(sGuess, sPool)) = 1))
       /\ Resolved(sOut) =>
            /\ sOut.selectedAnswer \in Range(sPool)
            /\ Helpfulness(sGuess, sOut.selectedAnswer) = m
            /\ sOut.pattern = scoreGuess(sGuess, sOut.selectedAnswer)

\* a pool of several words of which exactly one scores 0 against the guess:
\* the selector was forced to that word
C4_Witness ==
  /\ sStage = "done"
  /\ Len(sPool) >= 2
  /\ MinHelpfulness(sGuess, sPool) = 0
  /\ Cardinality(Attaining(sGuess, sPool)) = 1
  /\ Resolved(sOut)
  /\ \A i \in 1..Len(sOut.pattern) : sOut.pattern[i].state = "miss"

\* C5 (as claimed): when the minimum helpfulness is 0 and at least two
\* candidates attain it, every letter of the returned pattern has verdict
\* miss, the answer stays unresolved and the narrowed pool is exactly the
\* candidates of helpfulness 0.
C5_WithheldAllMiss ==
  (sStage = "done" /\ sPool # << >>
     /\ MinHelpfulness(sGuess, sPool) = 0
     /\ Cardinality(Attaining(sGuess, sPool)) >= 2) =>
    /\ \A i \in 1..Len(sOut.pattern) : sOut.pattern[i].state = "miss"
    /\ Len(sOut.pattern) = Len(sGuess)
    /\ ~Resolved(sOut)
    /\ Range(sOut.remainingWords) = {sPool[i] : i \in Attaining(sGuess, sPool)}

----------------------------------------------------------------------------
(* Properties of the game state machine *)

SubmitInputs(gameId) == RawGuesses \X PlayerIdInputs(games, gameId)
Accepted(result) == result.op = "submitGuess" /\ result.error = ""
Rejected(result) == result.op = "submitGuess" /\ result.error # ""

\* C6: the narrowed pool is a subset of the pool passed in, a resolved answer
\* is an element of the pool passed into that call, and across any sequence
\* of submissions the candidate pool never gains a word.
C6_PoolOnlyNarrows ==
  [][\A g \in DOMAIN games :
       /\ g \in DOMAIN games'
       /\ Range(games'[g].candidateWords) \subseteq Range(games[g].candidateWords)
       /\ (games[g].mode = "absurdle" /\ games'[g].answer # games[g].answer) =>
            /\ games[g].answer = << >>
            /\ games'[g].answer \in Range(games[g].candidateWords)]_vars

\* an Absurdle game whose pool was first narrowed with feedback withheld and
\* whose answer was then resolved from the narrowed pool
C6_Witness ==
  \E g \in DOMAIN games :
    /\ games[g].mode = "absurdle"
    /\ Accepted(lastResult)
    /\ games[g].answer # << >>
    /\ Len(games[g].players[1].guesses) >= 2
    /\ \A i \in 1..Len(games[g].players[1].guesses[1]) :
         games[g].players[1].guesses[1][i].state = "empty"
    /\ Len(games[g].candidateWords) < Len(wordList)

\* C7: status only moves playing -> won or playing -> lost; once a game is won
\* or lost every submitGuess on it fails with the state error and none of its
\* state changes again.
C7_TerminalIsFinal ==
  /\ [](\A g \in DOMAIN games :
          games[g].gameStatus # "playing" =>
            \A in \in SubmitInputs(g) :
              LET res == submitGuess(games, g, in[1], in[2])
              IN res.error = ErrNotPlaying /\ res.game = games[g])
  /\ [][\A g \in DOMAIN games :
          /\ g \in DOMAIN games'
          /\ games'[g].gameStatus # games[g].gameStatus =>
               games[g].gameStatus = "playing" /\ games'[g].gameStatus \in {"won", "lost"}
          /\ games[g].gameStatus # "playing" =>
               /\ games'[g] = games[g]
               /\ lastResult'.op = "submitGuess" =>
                    lastResult'.error \in {ErrNotPlaying, ErrNotFound}]_vars

\* a finished game has just refused a guess with the state error
C7_Witness ==
  \E g \in DOMAIN games :
    /\ games[g].gameStatus \in {"won", "lost"}
    /\ lastResult.op = "submitGuess"
    /\ lastResult.error = ErrNotPlaying

\* C8: a submitGuess that fails leaves every stored game exactly as it was.
C8_FailureLeavesStateAlone ==
  /\ [](\A g \in DOMAIN games : \A in \in SubmitInputs(g) :
          LET res == submitGuess(games, g, in[1], in[2])
          IN res.error # "" => res.game = games[g])
  /\ [][Rejected(lastResult') => games' = games]_vars

\* a multiplayer game in progress, with guesses recorded, has just rejected a
\* submission of the wrong player
C8_Witness ==
  \E g \in DOMAIN games :
    /\ lastResult.op = "submitGuess"
    /\ lastResult.error = ErrTurn
    /\ games[g].gameStatus = "playing"
    /\ games[g].currentPlayerIndex = 1
    /\ Len(games[g].players[1].guesses) = 1

\* a guess that passes the format, length, letters and dictionary checks
PassesWordChecks(game, guess) ==
  /\ guess # << >>
  /\ Len(Normalize(guess)) = game.wordLength
  /\ OnlyLetters(Normalize(guess))
  /\ isValidWord(Normalize(guess))

HasCurrentPlayer(game) == game.currentPlayerIndex + 1 <= Len(game.players)

\* C9: in a multiplayer game in progress, a submission carrying a playerId
\* other than players[currentPlayerIndex].id is never accepted, and is refused
\* with the turn error when the guess itself is valid; a valid submission
\* without playerId is accepted; every accepted guess is appended to the list
\* of players[currentPlayerIndex] (the index before it advances) and to no
\* other list.
C9_TurnEnforcement ==
  /\ [](\A g \in DOMAIN games :
          (games[g].mode = "multiplayer" /\ games[g].gameStatus = "playing"
             /\ HasCurrentPlayer(games[g])) =>
            \A in \in SubmitInputs(g) :
              LET res == submitGuess(games, g, in[1], in[2])
              IN /\ (in[2] # NoPlayerId
                       /\ in[2] # games[g].players[games[g].currentPlayerIndex + 1].id) =>
                      /\ res.error # ""
                      /\ PassesWordChecks(games[g], in[1]) => res.error = ErrTurn
                 /\ (in[2] = NoPlayerId /\ PassesWordChecks(games[g], in[1])) =>
                      res.error = "")
  /\ [][\A g \in DOMAIN games :
       (games[g].mode = "multiplayer" /\ g \in DOMAIN games') =>
         /\ (Accepted(lastResult') /\ lastResult'.value.gameId = g) =>
              \A i \in 1..Len(games[g].players) :
                games'[g].players[i].guesses =
                  IF i = games[g].currentPlayerIndex + 1
                    THEN Append(games[g].players[i].guesses, lastResult'.value.scoredGuess)
                    ELSE games[g].players[i].guesses
         /\ (\E i \in 1..Len(games[g].players) :
               games'[g].players[i].guesses # games[g].players[i].guesses) =>
              Accepted(lastResult')]_vars

\* the second player of a two-player game has just had a guess accepted under
\* their own id, and it sits in their list, not in the first player's
C9_Witness ==
  \E g \in DOMAIN games :
    /\ games[g].mode = "multiplayer"
    /\ Len(games[g].players) = 2
    /\ Accepted(lastResult)
    /\ lastResult.value.playerId = games[g].players[2].id
    /\ Len(games[g].players[2].guesses) = 1
    /\ games[g].players[2].guesses[1] = lastResult.value.scoredGuess
    /\ Len(games[g].players[1].guesses) = 1

\* C10: in a multiplayer game with N >= 1 players, after any N consecutive
\* accepted submissions currentPlayerIndex is back at its value before the
\* first of them and currentRow has grown by exactly 1.
C10_TurnCycle ==
  \A g \in DOMAIN games :
    (games[g].mode = "multiplayer" /\ Len(games[g].players) >= 1) =>
      \A i \in 1..Len(turnLog[g]) :
        i + Len(games[g].players) <= Len(turnLog[g]) =>
          /\ turnLog[g][i + Len(games[g].players)][1] = turnLog[g][i][1]
          /\ turnLog[g][i + Len(games[g].players)][2] = turnLog[g][i][2] + 1

\* two players, and a run of two accepted submissions that started in the
\* middle of a round has completed
C10_Witness ==
  \E g \in DOMAIN games :
    /\ games[g].mode = "multiplayer"
    /\ Len(games[g].players) = 2
    /\ Len(turnLog[g]) >= 4
    /\ turnLog[g][2] = <<1, 0>>
    /\ turnLog[g][4] = <<1, 1>>

\* a scored guess whose every letter is a hit: the guess was the answer
AllHit(scoredGuess) ==
  Len(scoredGuess) > 0 /\ \A i \in 1..Len(scoredGuess) : scoredGuess[i].state = "hit"

\* the ids of the players recorded as winners
WinnerIds(game) == {game.players[i].id : i \in {j \in 1..Len(game.players) :
                                                  game.players[j].isWinner}}

\* C11: in a two-player multiplayer game, when the first player's guess of the
\* current round was the answer and the second player's guess of the same
\* round is accepted and is the answer too, the game is won after that second
\* submission and both players are recorded as winners (two winner ids; the
\* winnerId field names one of them).
C11_TieBothWinners ==
  [][\A g \in DOMAIN games :
       (/\ games[g].mode = "multiplayer"
        /\ Len(games[g].players) = 2
        /\ games[g].currentPlayerIndex = 1
        /\ Len(games[g].players[1].guesses) = games[g].currentRow + 1
        /\ AllHit(games[g].players[1].guesses[games[g].currentRow + 1])
        /\ Accepted(lastResult')
        /\ lastResult'.value.gameId = g
        /\ lastResult'.value.normalizedGuess = games[g].answer) =>
         /\ games'[g].gameStatus = "won"
         /\ \A i \in 1..2 : games'[g].players[i].isWinner
         /\ Cardinality(WinnerIds(games'[g])) = 2
         /\ games'[g].winnerId \in WinnerIds(games'[g])]_vars

\* a two-player game has just been won in its second round by a tie: each
\* player's second guess is all hits
C11_Witness ==
  \E g \in DOMAIN games :
    /\ games[g].mode = "multiplayer"
    /\ Len(games[g].players) = 2
    /\ Accepted(lastResult)
    /\ games[g].gameStatus = "won"
    /\ games[g].currentRow = 2
    /\ \A i \in 1..2 :
         /\ Len(games[g].players[i].guesses) = 2
         /\ AllHit(games[g].players[i].guesses[2])
         /\ games[g].players[i].isWinner

\* no recorded guess of the game was the answer
NoCorrectGuess(game) ==
  \A i \in 1..Len(game.players) :
    \A k \in 1..Len(game.players[i].guesses) : ~AllHit(game.players[i].guesses[k])

\* every player has played exactly n rounds
PlayedRounds(game, n) ==
  \A i \in 1..Len(game.players) : Len(game.players[i].guesses) = n

\* C12: in every mode, for a game with maxRounds >= 1 (and at least one
\* player), when every player has guessed in maxRounds rounds and no guess
\* was the answer the status is lost; and a lost game is always in that
\* situation, so the status is never lost earlier.
C12_LostExactlyAfterMaxRounds ==
  \A g \in DOMAIN games :
    (games[g].maxRounds >= 1 /\ Len(games[g].players) >= 1) =>
      /\ (NoCorrectGuess(games[g]) /\ PlayedRounds(games[g], games[g].maxRounds)) =>
           games[g].gameStatus = "lost"
      /\ games[g].gameStatus = "lost" =>
           /\ NoCorrectGuess(games[g])
           /\ PlayedRounds(games[g], games[g].maxRounds)
           /\ games[g].currentRow = games[g].maxRounds

\* a two-player game of two rounds has just been lost with its fourth guess
C12_Witness ==
  \E g \in DOMAIN games :
    /\ games[g].mode = "multiplayer"
    /\ Len(games[g].players) = 2
    /\ games[g].maxRounds = 2
    /\ Accepted(lastResult)
    /\ games[g].gameStatus = "lost"
    /\ PlayedRounds(games[g], 2)
    /\ NoCorrectGuess(games[g])

\* C13: in a single or Absurdle game, an accepted guess that equals the answer
\* (the answer as it stands once the guess is scored) sets gameStatus won and
\* winnerId to the single player and leaves currentRow unchanged; an accepted
\* guess that does not equal it increments currentRow by exactly 1 and sets
\* gameStatus lost if and only if the new currentRow >= maxRounds.
C13_SinglePlayerOutcome ==
  [][\A g \in DOMAIN games :
       (/\ games[g].mode \in {"single", "absurdle"}
        /\ Accepted(lastResult')
        /\ lastResult'.value.gameId = g) =>
         IF lastResult'.value.normalizedGuess = games'[g].answer
           THEN /\ games'[g].gameStatus = "won"
                /\ Len(games'[g].players) = 1
                /\ games'[g].winnerId = games'[g].players[1].id
                /\ games'[g].currentRow = games[g].currentRow
           ELSE /\ games'[g].currentRow = games[g].currentRow + 1
                /\ games'[g].gameStatus \in {"playing", "lost"}
                /\ games'[g].gameStatus = "lost" <=>
                     games'[g].currentRow >= games'[g].maxRounds]_vars

\* a single game has just been won by its second guess, in the row the first,
\* wrong guess moved it to
C13_Witness ==
  \E g \in DOMAIN games :
    /\ games[g].mode = "single"
    /\ Accepted(lastResult)
    /\ lastResult.value.normalizedGuess = games[g].answer
    /\ games[g].gameStatus = "won"
    /\ games[g].winnerId = games[g].players[1].id
    /\ games[g].currentRow = 1
    /\ Len(games[g].players[1].guesses) = 2
    /\ ~AllHit(games[g].players[1].guesses[1])

\* the game a submission has just been accepted on
JustAccepted(g) ==
  /\ Accepted(lastResult)
  /\ lastResult.value.gameId = g
  /\ lastResult.value.gameState = toClientGameState(games[g])

\* C14 as stated: after an accepted multiplayer submission, whenever the index
\* has wrapped to 0 or some player has isWinner, a winner makes the status
\* won and, without one, currentRow >= maxRounds makes it lost.
C14_EvaluatedOnWrapOrWin ==
  \A g \in DOMAIN games :
    (/\ games[g].mode = "multiplayer"
     /\ JustAccepted(g)
     /\ \/ games[g].currentPlayerIndex = 0
        \/ WinnerIds(games[g]) # {}) =>
      IF WinnerIds(games[g]) # {}
        THEN games[g].gameStatus = "won"
        ELSE games[g].currentRow >= games[g].maxRounds => games[g].gameStatus = "lost"

\* C14, amended: after an accepted multiplayer submission the game is
\* evaluated exactly when the index has wrapped to 0: then a winner makes the
\* status won, no winner and currentRow >= maxRounds makes it lost, and
\* otherwise it stays playing; when the index has not wrapped the status
\* stays playing, also when a player has already won.
C14_EvaluatedOnlyOnWrap ==
  \A g \in DOMAIN games :
    (games[g].mode = "multiplayer" /\ JustAccepted(g)) =>
      games[g].gameStatus =
        IF games[g].currentPlayerIndex # 0 THEN "playing"
        ELSE IF WinnerIds(games[g]) # {} THEN "won"
        ELSE IF games[g].currentRow >= games[g].maxRounds THEN "lost"
        ELSE "playing"

\* the first of two players has just guessed the answer: their isWinner is
\* set, the index is 1 and the game is still being played
C14_Witness ==
  \E g \in DOMAIN games :
    /\ games[g].mode = "multiplayer"
    /\ Len(games[g].players) = 2
    /\ JustAccepted(g)
    /\ games[g].currentPlayerIndex = 1
    /\ games[g].players[1].isWinner
    /\ games[g].gameStatus = "playing"

\* C15 as stated: in an Absurdle game that is being played, exactly one of
\* "the answer is resolved" and "the candidate pool is non-empty" holds.
C15_ResolvedXorPool ==
  \A g \in DOMAIN games :
    (games[g].mode = "absurdle" /\ games[g].gameStatus = "playing") =>
      (games[g].answer # << >>) # (Len(games[g].candidateWords) > 0)

\* C15, amended: in every state of an Absurdle game the candidate pool is
\* non-empty, whether or not the answer is resolved: it is non-empty while the
\* answer is unresolved, and the submission that resolves the answer leaves
\* the narrowed pool in place, the resolved answer among its words.
C15_PoolKeptOnResolution ==
  \A g \in DOMAIN games :
    games[g].mode = "absurdle" =>
      /\ Len(games[g].candidateWords) > 0
      /\ games[g].answer # << >> => games[g].answer \in Range(games[g].candidateWords)

\* an Absurdle game still being played whose answer the last guess resolved
\* without winning: the answer and a non-empty pool are both there
C15_Witness ==
  \E g \in DOMAIN games :
    /\ games[g].mode = "absurdle"
    /\ games[g].gameStatus = "playing"
    /\ JustAccepted(g)
    /\ games[g].answer # << >>
    /\ Len(games[g].players[1].guesses) = 1
    /\ Len(games[g].candidateWords) > 0

\* the word a scored guess spells
GuessWord(scoredGuess) == [i \in 1..Len(scoredGuess) |-> scoredGuess[i].char]

\* C16: an Absurdle game that is won has a resolved answer, and its player's
\* last guess, the winning one, is that answer; while the answer is unresolved
\* the player is not a winner and the game is not won, so a submission that
\* leaves the answer unresolved never sets isWinner or gameStatus won.
C16_WonOnlyWhenResolved ==
  \A g \in DOMAIN games :
    games[g].mode = "absurdle" =>
      /\ games[g].answer = << >> =>
           /\ games[g].gameStatus # "won"
           /\ games[g].winnerId = NoWinner
           /\ \A i \in 1..Len(games[g].players) : ~games[g].players[i].isWinner
      /\ games[g].gameStatus = "won" =>
           LET guesses == games[g].players[1].guesses
           IN /\ games[g].answer # << >>
              /\ Len(guesses) > 0
              /\ GuessWord(guesses[Len(guesses)]) = games[g].answer
              /\ AllHit(guesses[Len(guesses)])
      /\ (JustAccepted(g) /\ games[g].gameStatus = "won") =>
           lastResult.value.normalizedGuess = games[g].answer

\* an Absurdle game has just been won: the first guess resolved the answer
\* without being it, and the second guess is that answer
C16_Witness ==
  \E g \in DOMAIN games :
    /\ games[g].mode = "absurdle"
    /\ JustAccepted(g)
    /\ games[g].gameStatus = "won"
    /\ games[g].players[1].isWinner
    /\ games[g].answer = lastResult.value.normalizedGuess
    /\ Len(games[g].players[1].guesses) = 2
    /\ ~AllHit(games[g].players[1].guesses[1])

\* C17: in every state of every game, every player has at most
\* currentRow + 1 recorded guesses.
C17_GuessesBoundedByRow ==
  \A g \in DOMAIN games :
    \A i \in 1..Len(games[g].players) :
      Len(games[g].players[i].guesses) <= games[g].currentRow + 1

\* the bound is attained in the second round of a two-player game: the first
\* player has guessed twice, the second once, and currentRow is 1
C17_Witness ==
  \E g \in DOMAIN games :
    /\ games[g].mode = "multiplayer"
    /\ Len(games[g].players) = 2
    /\ JustAccepted(g)
    /\ games[g].currentRow = 1
    /\ Len(games[g].players[1].guesses) = 2
    /\ Len(games[g].players[2].guesses) = 1

\* C18: in every state of every game, 0 <= currentRow <= maxRounds and
\* 0 <= currentPlayerIndex < number of players, and in single and Absurdle
\* games currentPlayerIndex is 0.
C18_RowAndIndexInRange ==
  \A g \in DOMAIN games :
    /\ 0 <= games[g].currentRow
    /\ games[g].currentRow <= games[g].maxRounds
    /\ 0 <= games[g].currentPlayerIndex
    /\ games[g].currentPlayerIndex < Len(games[g].players)
    /\ games[g].mode \in {"single", "absurdle"} => games[g].currentPlayerIndex = 0

\* C19: in every state, winnerId is empty unless gameStatus is won, and in a
\* won game it is the id of a player of that game whose isWinner is true.
C19_WinnerIdOnlyWhenWon ==
  \A g \in DOMAIN games :
    IF games[g].gameStatus = "won"
      THEN games[g].winnerId \in WinnerIds(games[g])
      ELSE games[g].winnerId = NoWinner

\* a two-player game won by its second player alone: winnerId is theirs
C19_Witness ==
  \E g \in DOMAIN games :
    /\ games[g].mode = "multiplayer"
    /\ Len(games[g].players) = 2
    /\ games[g].gameStatus = "won"
    /\ ~games[g].players[1].isWinner
    /\ games[g].players[2].isWinner
    /\ games[g].winnerId = games[g].players[2].id

Reads == {"getGame", "getGameAnswer"}

\* C20: a getGame or getGameAnswer call, wherever it falls among the other
\* calls, leaves every stored game (currentRow, currentPlayerIndex,
\* gameStatus and all other fields) as it was and returns what the stored
\* state determines; and a read that directly follows a read of the same
\* kind on the same game returns the same result.
C20_ReadsChangeNothing ==
  [][lastResult'.op \in Reads =>
       /\ games' = games
       /\ lastResult'.op = "getGame" =>
            lastResult'.value.gameState = getGame(games', lastResult'.value.gameId)
       /\ lastResult'.op = "getGameAnswer" =>
            lastResult'.value.answer = getGameAnswer(games', lastResult'.value.gameId)
       /\ (/\ lastResult.op = lastResult'.op
           /\ lastResult.value.gameId = lastResult'.value.gameId) =>
            lastResult'.value = lastResult.value]_vars

\* a finished game has been read after its last guess: the reply shows the
\* stored state, which still carries the guesses, row and status
C20_Witness ==
  \E g \in DOMAIN games :
    /\ lastResult.op = "getGame"
    /\ lastResult.value.gameId = g
    /\ lastResult.value.gameState = toClientGameState(games[g])
    /\ games[g].gameStatus = "won"
    /\ games[g].currentRow = 1
    /\ Len(games[g].players[1].guesses) = 2

\* a client projection without the answer and without the candidate words
HidesAnswer(gameState) == DOMAIN gameState \cap {"answer", "candidateWords"} = {}

\* C21: the gameState returned by createGame, by an accepted submitGuess and
\* by getGame has neither an answer field nor a candidateWords field, in
\* every mode and every status; nor has the projection of any stored game.
C21_ProjectionHidesAnswer ==
  /\ (lastResult.op \in {"createGame", "submitGuess"} /\ lastResult.error = "") =>
       HidesAnswer(lastResult.value.gameState)
  /\ lastResult.op = "getGame" => HidesAnswer(lastResult.value.gameState)
  /\ \A g \in DOMAIN games : HidesAnswer(toClientGameState(games[g]))

\* a won Absurdle game, holding a resolved answer and a candidate list, has
\* been read with getGame
C21_Witness ==
  \E g \in DOMAIN games :
    /\ games[g].mode = "absurdle"
    /\ games[g].gameStatus = "won"
    /\ games[g].answer # << >>
    /\ Len(games[g].candidateWords) > 0
    /\ lastResult.op = "getGame"
    /\ lastResult.value.gameId = g
    /\ lastResult.value.gameState = toClientGameState(games[g])

\* C22: getGameAnswer returns null for an id of no stored game and for every
\* game whose gameStatus is playing, in every mode, an Absurdle game with a
\* selected answer included.
C22_NoAnswerWhilePlaying ==
  /\ \A gameId \in GameIds \cup {UnknownGameId} :
       (gameId \notin DOMAIN games \/ games[gameId].gameStatus = "playing") =>
         getGameAnswer(games, gameId) = << >>
  /\ (/\ lastResult.op = "getGameAnswer"
      /\ \/ lastResult.value.gameId \notin DOMAIN games
         \/ games[lastResult.value.gameId].gameStatus = "playing") =>
       lastResult.value.answer = << >>

\* the answer of an Absurdle game in progress was asked for after its first
\* guess had fixed the answer: the reply is null
C22_Witness ==
  \E g \in DOMAIN games :
    /\ games[g].mode = "absurdle"
    /\ games[g].gameStatus = "playing"
    /\ games[g].answer # << >>
    /\ lastResult.op = "getGameAnswer"
    /\ lastResult.value.gameId = g
    /\ lastResult.value.answer = << >>

\* C23 as stated: for every game that is won or lost, in every mode, the
\* answer endpoint replies 200 with a word.
C23_TerminalAnswerAvailable ==
  \A g \in DOMAIN games :
    games[g].gameStatus \in {"won", "lost"} =>
      /\ getGameAnswer(games, g) # << >>
      /\ getGameAnswerStatus(getGameAnswer(games, g)) = HttpOk

\* C23, amended: for every won or lost game in single or multiplayer mode and
\* every won or lost Absurdle game whose answer was selected, the answer
\* endpoint replies 200 with the game's answer; for a finished Absurdle game
\* whose answer was never selected (a lost one) it replies 404.
C23_TerminalAnswerUnlessUnselected ==
  \A g \in DOMAIN games :
    games[g].gameStatus \in {"won", "lost"} =>
      IF games[g].mode = "absurdle" /\ games[g].answer = << >>
        THEN /\ games[g].gameStatus = "lost"
             /\ getGameAnswer(games, g) = << >>
             /\ getGameAnswerStatus(getGameAnswer(games, g)) = HttpNotFound
        ELSE /\ games[g].answer # << >>
             /\ getGameAnswer(games, g) = games[g].answer
             /\ getGameAnswerStatus(getGameAnswer(games, g)) = HttpOk

\* an Absurdle game was lost with feedback withheld on every guess, and its
\* answer has been asked for: there is none
C23_Witness ==
  \E g \in DOMAIN games :
    /\ games[g].mode = "absurdle"
    /\ games[g].gameStatus = "lost"
    /\ games[g].answer = << >>
    /\ Len(games[g].candidateWords) >= 2
    /\ lastResult.op = "getGameAnswer"
    /\ lastResult.value.gameId = g
    /\ lastResult.value.answer = << >>
    /\ getGameAnswerStatus(lastResult.value.answer) = HttpNotFound

\* C24: every stored game has exactly 1 player in single and Absurdle mode
\* and at least 2 players in multiplayer mode (so creating a multiplayer game
\* with absent, empty or one-name playerNames stores nothing), and a
\* createGame that failed stored no game.
C24_PlayerCounts ==
  /\ \A g \in DOMAIN games :
       IF games[g].mode \in {"single", "absurdle"}
         THEN Len(games[g].players) = 1
         ELSE Len(games[g].players) >= 2
  /\ (lastResult.op = "createGame" /\ lastResult.error # "") => DOMAIN games = {}

\* the status the claim gives each kind of submitGuess failure
ExpectedSubmitStatus(error) ==
  CASE error \in {ErrLength, ErrLetters, ErrNotWord} -> HttpBadRequest
    [] error = ErrTurn -> HttpBadRequest
    [] error = ErrNotPlaying -> HttpBadRequest
    [] error = ErrNotFound -> HttpNotFound
    [] error \in {ErrNoCandidates, ErrNoPatterns, ErrTypeError} -> HttpServerError
    [] OTHER -> submitErrorStatus(error)

\* the submitGuess part of C25: every failure of a submission with a guess
\* gets the status of its kind
SubmitStatusesAsClaimed ==
  \A gameId \in GameIds \cup {UnknownGameId} : \A in \in SubmitInputs(gameId) :
    LET error == submitGuess(games, gameId, in[1], in[2]).error
    IN (in[1] # << >> /\ error # "") =>
         submitGuessStatus(in[1], error) = ExpectedSubmitStatus(error)

\* C25: wrong length, non-letters, unknown word and malformed game config
\* reply 400, a turn error 400, a game not in playing state 400, an unknown
\* game id 404, and an internal failure 500; the malformed config is the one
\* createGame refuses, a multiplayer game without playerNames.
C25_ErrorStatuses ==
  /\ SubmitStatusesAsClaimed
  /\ (lastResult.op = "createGame" /\ lastResult.error # "") =>
       createGameStatus(lastResult.error) = HttpBadRequest

\* the served requests from the i-th on, applied one at a time to the store
\* gs, give the logged outcomes and end in the current store
RECURSIVE ReplayAgrees(_, _)
ReplayAgrees(gs, i) ==
  IF i > Len(served) THEN gs = games
  ELSE LET res == submitGuess(gs, served[i].gameId, served[i].guess, served[i].playerId)
       IN /\ res.error = served[i].error
          /\ ReplayAgrees(IF res.found THEN [gs EXCEPT ![served[i].gameId] = res.game]
                                       ELSE gs, i + 1)

RECURSIVE SumGuesses(_, _)
SumGuesses(players, i) ==
  IF i > Len(players) THEN 0
  ELSE Len(players[i].guesses) + SumGuesses(players, i + 1)

AcceptedEntries(g) ==
  {i \in 1..Len(served) : served[i].gameId = g /\ served[i].error = ""}

\* C26: whatever the order in which waiting requests are handled, the store
\* and every reply are those of applying the handled requests one at a time
\* (in the order they were handled) to the store they started from; the
\* guesses recorded in a game number exactly the accepted requests on it; and
\* two requests carrying the same playerId are never both accepted for the
\* same turn of a multiplayer game.
C26_RequestsSerialized ==
  /\ ReplayAgrees(origin, 1)
  /\ \A g \in DOMAIN games :
       /\ SumGuesses(games[g].players, 1) =
            SumGuesses(origin[g].players, 1) + Cardinality(AcceptedEntries(g))
       /\ games[g].mode = "multiplayer" =>
            \A i, j \in AcceptedEntries(g) :
              (/\ i # j
               /\ served[i].playerId # NoPlayerId
               /\ served[i].playerId = served[j].playerId) =>
                served[i].turn # served[j].turn

\* two requests of the first player were waiting together and the later one
\* was handled first: it was accepted, and the earlier one then refused with
\* the turn error
C26_Witness ==
  \E g \in DOMAIN games :
    /\ games[g].mode = "multiplayer"
    /\ Len(served) >= 2
    /\ served[1].rid = 2
    /\ served[2].rid = 1
    /\ served[1].playerId = games[g].players[1].id
    /\ served[2].playerId = games[g].players[1].id
    /\ served[1].error = ""
    /\ served[2].error = ErrTurn
    /\ SumGuesses(games[g].players, 1) = 1

\* C27: whenever absurdleScoreGuess selects an answer, the pattern it returns
\* is scoreGuess(guess, selectedAnswer), the value submitGuess computes when it
\* scores the guess again: the scored guess is the same with or without the
\* second scoring.
C27_SelectorPatternIsRescore ==
  (sStage = "done" /\ ~sOut.threw /\ sOut.selectedAnswer # << >>) =>
    sOut.pattern = scoreGuess(sGuess, sOut.selectedAnswer)

\* an answer was selected among several words of the same, non-zero score,
\* whose patterns differ
C27_Witness ==
  /\ sStage = "done"
  /\ ~sOut.threw
  /\ sOut.selectedAnswer # << >>
  /\ Len(sOut.remainingWords) >= 2
  /\ \E i \in 1..Len(sOut.remainingWords) :
       scoreGuess(sGuess, sOut.remainingWords[i]) # sOut.pattern

IsPrefix(a, b) == Len(a) <= Len(b) /\ SubSeq(b, 1, Len(a)) = a

\* C28: in every step, every player's guess list keeps its earlier guesses
\* as a prefix and an isWinner that is true stays true; a step that accepts a
\* submission on a game adds exactly one guess, at the end of exactly one of
\* its lists, and any other step leaves all its lists as they are (a step
\* that accepts nothing and leaves the store untouched is the plain case).
C28_GuessesAppendOnly ==
  [][\/ games' = games /\ ~Accepted(lastResult')
     \/ \A g \in DOMAIN games :
          /\ g \in DOMAIN games'
          /\ Len(games'[g].players) = Len(games[g].players)
          /\ \A i \in 1..Len(games[g].players) :
               /\ IsPrefix(games[g].players[i].guesses, games'[g].players[i].guesses)
               /\ games[g].players[i].isWinner => games'[g].players[i].isWinner
          /\ SumGuesses(games'[g].players, 1) =
               SumGuesses(games[g].players, 1) +
                 (IF Accepted(lastResult') /\ lastResult'.value.gameId = g
                    THEN 1 ELSE 0)]_vars

\* the second player of a two-player game has just had a second guess
\* accepted: it sits at the end of their list, after their different first one
C28_Witness ==
  \E g \in DOMAIN games :
    /\ games[g].mode = "multiplayer"
    /\ Len(games[g].players) = 2
    /\ JustAccepted(g)
    /\ Len(games[g].players[2].guesses) = 2
    /\ games[g].players[2].guesses[1] # games[g].players[2].guesses[2]
    /\ games[g].players[2].guesses[2] = lastResult.value.scoredGuess

\* a pattern with at least one hit
HasHit(pattern) == \E i \in DOMAIN pattern : pattern[i].state = "hit"

\* C29: with helpfulness 6 x hits + 1 x presents and at most five letters, a
\* pattern with a hit scores strictly more than a pattern without one; and
\* when some candidate of the pool gives the guess a pattern without a hit,
\* the selector resolves neither to a candidate whose pattern has a hit nor to
\* a returned pattern with a hit.
C29_HitsOutweighPresents ==
  /\ sStage = "scored" =>
       (HasHit(sPool[1]) /\ ~HasHit(sPool[2]) => sOut[1] > sOut[2])
  /\ (/\ sStage = "done"
      /\ Resolved(sOut)
      /\ \E i \in DOMAIN sPool : ~HasHit(scoreGuess(sGuess, sPool[i])))
       => /\ ~HasHit(scoreGuess(sGuess, sOut.selectedAnswer))
          /\ ~HasHit(sOut.pattern)

\* C29 witness: the guess ABCLM against a pool holding BCLMA (five presents)
\* and AYYYY (one hit) has resolved to BCLMA.
C29_Witness ==
  /\ sStage = "done"
  /\ sGuess = ABCLM
  /\ sPool = <<AYYYY, BCLMA>>
  /\ scorePattern(scoreGuess(sGuess, BCLMA)) = 5
  /\ HasHit(scoreGuess(sGuess, AYYYY))
  /\ sOut.selectedAnswer = BCLMA

\* the ids of a player list, in order
PlayerIds(players) == [i \in 1..Len(players) |-> players[i].id]

\* C30: a submitGuess call, accepted or rejected, keeps every session in the
\* store with its id, mode, maxRounds, wordLength and the number, order and
\* ids of its players; it changes at most one session, and an accepted call
\* changes no session other than the one it was addressed to.
C30_SubmitFrame ==
  [][/\ DOMAIN games' = DOMAIN games
     /\ \A g \in DOMAIN games :
          /\ games'[g].id = games[g].id
          /\ games'[g].mode = games[g].mode
          /\ games'[g].maxRounds = games[g].maxRounds
          /\ games'[g].wordLength = games[g].wordLength
          /\ PlayerIds(games'[g].players) = PlayerIds(games[g].players)
     /\ \A g, h \in DOMAIN games :
          g # h /\ games'[g] # games[g] => games'[h] = games[h]
     /\ \A h \in DOMAIN games :
          Accepted(lastResult') /\ lastResult'.value.gameId # h => games'[h] = games[h]]_vars

\* C30 witness: both sessions hold an accepted guess, the second one just got
\* its guess, and both still carry the id they were created with.
C30_Witness ==
  /\ DOMAIN games = TwoGameIds
  /\ Accepted(lastResult)
  /\ lastResult.value.gameId = 2
  /\ SumGuesses(games[1].players, 1) > 0
  /\ SumGuesses(games[2].players, 1) > 0
  /\ games[1].id = 1
  /\ games[2].id = 2

\* the fewest guesses any player of the list has
FewestGuesses(players) ==
  CHOOSE n \in {Len(players[j].guesses) : j \in 1..Len(players)} :
    \A j \in 1..Len(players) : n <= Len(players[j].guesses)

\* the client state without the guesses of a round some player has yet to play
WithoutOpenRound(gameState) ==
  [gameState EXCEPT !.players =
     [j \in 1..Len(gameState.players) |->
        [gameState.players[j] EXCEPT !.guesses =
           SubSeq(@, 1, FewestGuesses(gameState.players))]]]

\* C31: in a multiplayer session, as long as some player has no guess for a
\* round, every tile of a guess already made for that round is shown with
\* state "empty", and the keyboard is coloured exactly as it would be without
\* the guesses of that round.
C31_VerdictsHiddenUntilRoundComplete ==
  \A g \in DOMAIN games :
    games[g].mode = "multiplayer" /\ Len(games[g].players) > 0 =>
      /\ \A i \in 1..Len(games[g].players) :
         \A round \in 0..(Len(games[g].players[i].guesses) - 1) :
           (\E j \in 1..Len(games[g].players) :
              Len(games[g].players[j].guesses) <= round)
             => \A k \in 1..Len(games[g].players[i].guesses[round + 1]) :
                  tileState(toClientGameState(games[g]).players, round,
                            games[g].players[i].guesses[round + 1][k]) = "empty"
      /\ updateKeyboardState(allGuesses(toClientGameState(games[g]))) =
           updateKeyboardState(allGuesses(WithoutOpenRound(toClientGameState(games[g]))))

\* C31 witness: the first player of a two-player game has guessed with a hit,
\* the second player has not guessed yet, and the key of that letter is blank.
C31_Witness ==
  \E g \in DOMAIN games :
    /\ games[g].mode = "multiplayer"
    /\ Len(games[g].players) = 2
    /\ JustAccepted(g)
    /\ Len(games[g].players[1].guesses) = 1
    /\ Len(games[g].players[2].guesses) = 0
    /\ games[g].players[1].guesses[1][1].state = "hit"
    /\ tileState(games[g].players, 0, games[g].players[1].guesses[1][1]) = "empty"
    /\ updateKeyboardState(allGuesses(toClientGameState(games[g])))
         [games[g].players[1].guesses[1][1].char] = "none"

\* the checks of submitGuess, numbered in the order they are made: 1 unknown
\* session, 2 session not playing, 3 missing guess, 4 length, 5 letters,
\* 6 dictionary, 7 turn; StageOf gives the check an error message comes from
\* (0: no error; the turn check also fails with a TypeError when the session
\* has no player at the current index)
StageOf(error) ==
  CASE error = "" -> 0
    [] error = ErrNotFound -> 1
    [] error = ErrNotPlaying -> 2
    [] error = ErrFormat -> 3
    [] error = ErrLength -> 4
    [] error = ErrLetters -> 5
    [] error = ErrNotWord -> 6
    [] error \in {ErrTurn, ErrTypeError} -> 7
    [] OTHER -> 8

\* the checks a request would fail, each taken on its own
FailingChecks(gs, gameId, guess, normalizedGuess, playerId) ==
  IF gameId \notin DOMAIN gs THEN {1}
  ELSE {n \in 2..7 :
          \/ n = 2 /\ gs[gameId].gameStatus \in {"won", "lost"}
          \/ n = 3 /\ guess = << >>
          \/ n = 4 /\ Len(normalizedGuess) # gs[gameId].wordLength
          \/ n = 5 /\ (normalizedGuess = << >>
                         \/ \E i \in 1..Len(normalizedGuess) :
                              normalizedGuess[i] \notin UpperLetters)
          \/ n = 6 /\ normalizedGuess \notin Range(wordList)
          \/ n = 7 /\ gs[gameId].mode = "multiplayer" /\ playerId # NoPlayerId
                   /\ ~\E i \in 1..Len(gs[gameId].players) :
                         /\ i = gs[gameId].currentPlayerIndex + 1
                         /\ gs[gameId].players[i].id = playerId}

\* the first of a set of checks, 0 when the set is empty
FirstOf(checks) ==
  IF checks = {} THEN 0 ELSE CHOOSE n \in checks : \A m \in checks : n <= m

\* the error a request is answered with when validate finds failed
ReportedError(gameId, guess, failed) ==
  IF failed = "" THEN ""
  ELSE afterValidate(games, gameId, Normalize(guess), failed).error

\* C32 as claimed: the error reported is that of the first failing check in
\* the order unknown session, not playing, length, letters, dictionary, turn.
C32_ClaimedOrder ==
  \A gameId \in GameIds \cup {UnknownGameId}, guess \in RawGuesses :
  \A playerId \in PlayerIdInputs(games, gameId) :
    StageOf(ReportedError(gameId, guess, validate(games, gameId, guess, playerId))) =
      FirstOf(FailingChecks(games, gameId, guess, Normalize(guess), playerId) \ {3})

\* C32: in every reachable state and for every request, the error reported is
\* that of the first failing check in the order
\* unknown session, not playing, missing guess, length, letters, dictionary,
\* turn; so a word outside the dictionary sent to a finished game gets the
\* state error, and sent by the wrong player it gets the dictionary error.
C32_CheckOrder ==
  [](\A gameId \in GameIds \cup {UnknownGameId}, guess \in RawGuesses :
     \A playerId \in PlayerIdInputs(games, gameId) :
       StageOf(ReportedError(gameId, guess, validate(games, gameId, guess, playerId))) =
         FirstOf(FailingChecks(games, gameId, guess, Normalize(guess), playerId)))

\* C32 witness: a finished game has just refused a guess with the state
\* error, and refuses a word outside the dictionary the same way.
C32_Witness ==
  \E g \in DOMAIN games :
    /\ games[g].gameStatus # "playing"
    /\ lastResult.op = "submitGuess"
    /\ lastResult.error = ErrNotPlaying
    /\ ~isValidWord(<<"B", "B">>)
    /\ submitGuess(games, g, <<"B", "B">>, NoPlayerId).error = ErrNotPlaying

\* C33: once an Absurdle session has an answer, no step changes that answer or
\* its candidate list, and a guess it accepts afterwards is scored as
\* scoreGuess scores it against that answer.
C33_ResolvedAnswerIsFixed ==
  [][\A g \in DOMAIN games :
       games[g].mode = "absurdle" /\ games[g].answer # << >> =>
         /\ g \in DOMAIN games'
         /\ games'[g].answer = games[g].answer
         /\ games'[g].candidateWords = games[g].candidateWords
         /\ (Accepted(lastResult') /\ lastResult'.value.gameId = g =>
               lastResult'.value.scoredGuess =
                 scoreGuess(lastResult'.value.normalizedGuess, games[g].answer))]_vars

\* C33 witness: an Absurdle session resolved its answer on the first guess and
\* has just scored a second guess, all hits, against it.
C33_Witness ==
  \E g \in DOMAIN games :
    /\ games[g].mode = "absurdle"
    /\ JustAccepted(g)
    /\ Len(games[g].players[1].guesses) = 2
    /\ GuessWord(games[g].players[1].guesses[1]) # games[g].answer
    /\ ~AllHit(games[g].players[1].guesses[1])
    /\ games[g].players[1].guesses[1][1].state # "empty"
    /\ AllHit(games[g].players[1].guesses[2])
    /\ games[g].gameStatus = "won"

\* C34: in a multiplayer session, an accepted guess that is the answer leaves
\* the status playing and passes the turn to the next player when players of
\* the round are still to guess, and makes the status won when it is the last
\* guess of the round; and while a player has won
\* and the status is still playing, the round is under way and the player
\* whose turn it is has a dictionary word accepted.
C34_WinWaitsForRoundEnd ==
  /\ [](\A g \in DOMAIN games :
          (/\ games[g].mode = "multiplayer"
           /\ games[g].gameStatus = "playing"
           /\ WinnerIds(games[g]) # {})
            => /\ games[g].currentPlayerIndex > 0
               /\ games[g].currentPlayerIndex < Len(games[g].players)
               /\ submitGuess(games, g, wordList[1],
                              games[g].players[games[g].currentPlayerIndex + 1].id).error = "")
  /\ [][\A g \in DOMAIN games :
          (/\ Accepted(lastResult')
           /\ lastResult'.value.gameId = g
           /\ games[g].mode = "multiplayer"
           /\ AllHit(lastResult'.value.scoredGuess))
            => IF games[g].currentPlayerIndex + 1 < Len(games[g].players)
                 THEN /\ games'[g].gameStatus = "playing"
                      /\ games'[g].currentPlayerIndex = games[g].currentPlayerIndex + 1
                 ELSE games'[g].gameStatus = "won"]_vars

\* C34 witness: the first player of a two-player session has just guessed the
\* answer, the status is playing and it is the second player's turn.
C34_Witness ==
  \E g \in DOMAIN games :
    /\ games[g].mode = "multiplayer"
    /\ Len(games[g].players) = 2
    /\ JustAccepted(g)
    /\ AllHit(lastResult.value.scoredGuess)
    /\ games[g].players[1].isWinner
    /\ games[g].gameStatus = "playing"
    /\ games[g].currentPlayerIndex = 1

\* the place of a word in a list without repetition
PlaceIn(pool, w) == CHOOSE i \in DOMAIN pool : pool[i] = w

\* C35: when the selector resolves, the answer is the candidate that comes
\* first in the pool among those of minimum helpfulness, and the feedback is
\* the score of the guess against it; and the narrowed list holds its words
\* in the order the pool had them.
C35_FirstOfLowestInPoolOrder ==
  (sStage = "done" /\ ~sOut.threw) =>
    /\ Resolved(sOut) =>
         /\ sOut.selectedAnswer \in Range(sPool)
         /\ PlaceIn(sPool, sOut.selectedAnswer) \in Attaining(sGuess, sPool)
         /\ \A i \in Attaining(sGuess, sPool) : PlaceIn(sPool, sOut.selectedAnswer) <= i
         /\ sOut.pattern = scoreGuess(sGuess, sOut.selectedAnswer)
    /\ Range(sOut.remainingWords) \subseteq Range(sPool)
    /\ \A i, j \in DOMAIN sOut.remainingWords :
         i < j => PlaceIn(sPool, sOut.remainingWords[i]) < PlaceIn(sPool, sOut.remainingWords[j])

\* C35 witness: the pool [AC, AB, AA] and the guess AB: AC and AA both score
\* one hit, the lowest score; the selector took AC and kept AC, AA in order.
C35_Witness ==
  /\ sStage = "done"
  /\ sGuess = <<"A", "B">>
  /\ sPool = << <<"A", "C">>, <<"A", "B">>, <<"A", "A">> >>
  /\ Attaining(sGuess, sPool) = {1, 3}
  /\ MinHelpfulness(sGuess, sPool) > 0
  /\ sOut.selectedAnswer = <<"A", "C">>
  /\ sOut.remainingWords = << <<"A", "C">>, <<"A", "A">> >>

\* C36: for a session with maxRounds >= 1 and N players, the guesses accepted
\* so far (one per accepted submission) number at most maxRounds x N, the
\* status is playing only while currentRow < maxRounds, and once maxRounds x N
\* guesses have been accepted the status is won or lost.
C36_BoundedTermination ==
  \A g \in DOMAIN games :
    games[g].maxRounds >= 1 =>
      /\ SumGuesses(games[g].players, 1) <= games[g].maxRounds * Len(games[g].players)
      /\ games[g].gameStatus = "playing" => games[g].currentRow < games[g].maxRounds
      /\ SumGuesses(games[g].players, 1) = games[g].maxRounds * Len(games[g].players)
           => games[g].gameStatus \in {"won", "lost"}

\* a guess the selector answered with withheld feedback
Withheld(scoredGuess) ==
  Len(scoredGuess) > 0 /\ \A i \in 1..Len(scoredGuess) : scoredGuess[i].state = "empty"

\* a pattern of misses only
AllMiss(scoredGuess) ==
  \A i \in 1..Len(scoredGuess) : scoredGuess[i].state = "miss"

\* C37: in an Absurdle session whose answer is unresolved, the candidate list
\* holds exactly the dictionary words with helpfulness 0 against every guess
\* accepted so far; and once the answer is resolved, every guess that was
\* answered with withheld feedback scores all misses against it.
C37_PoolIsZeroScoringWords ==
  \A g \in DOMAIN games :
    games[g].mode = "absurdle" =>
      /\ games[g].answer = << >> =>
           Range(games[g].candidateWords) =
             {w \in Range(wordList) :
                \A k \in 1..Len(games[g].players[1].guesses) :
                  Helpfulness(GuessWord(games[g].players[1].guesses[k]), w) = 0}
      /\ games[g].answer # << >> =>
           \A k \in 1..Len(games[g].players[1].guesses) :
             Withheld(games[g].players[1].guesses[k]) =>
               AllMiss(scoreGuess(GuessWord(games[g].players[1].guesses[k]),
                                  games[g].answer))

\* C37 witness: a first guess was answered with withheld feedback, which left
\* two candidates, and the second guess resolved the answer to one of them.
C37_Witness ==
  \E g \in DOMAIN games :
    /\ games[g].mode = "absurdle"
    /\ JustAccepted(g)
    /\ Len(games[g].players[1].guesses) = 2
    /\ Withheld(games[g].players[1].guesses[1])
    /\ games[g].answer # << >>
    /\ games[g].answer \in Range(wordList)
    /\ ~Withheld(games[g].players[1].guesses[2])

\* C38: an Absurdle session whose answer is unresolved after at least one
\* accepted guess has at least two candidate words; so a finished Absurdle
\* session with an unresolved answer has no one-word candidate list, and
\* getGameAnswer returns no answer for it.
C38_UnresolvedPoolHasTwo ==
  \A g \in DOMAIN games :
    games[g].mode = "absurdle" /\ games[g].answer = << >> =>
      /\ Len(games[g].players[1].guesses) >= 1 => Len(games[g].candidateWords) >= 2
      /\ games[g].gameStatus # "playing" =>
           /\ Len(games[g].candidateWords) # 1
           /\ getGameAnswer(games, g) = << >>

\* C38 witness: an Absurdle session was lost on a guess with withheld
\* feedback; two candidates are left and the answer request got none.
C38_Witness ==
  \E g \in DOMAIN games :
    /\ games[g].mode = "absurdle"
    /\ games[g].answer = << >>
    /\ games[g].gameStatus = "lost"
    /\ Len(games[g].candidateWords) = 2
    /\ lastResult.op = "getGameAnswer"
    /\ lastResult.value.gameId = g
    /\ lastResult.value.answer = << >>

\* C39: when an Absurdle session with an unresolved answer and at least two
\* different candidate words accepts a guess, that guess does not win: the
\* player is not a winner and the status is not won after it, and an answer
\* it resolves is another word than the guess.
C39_ResolvingGuessNeverWins ==
  [][\A g \in DOMAIN games :
       (/\ games[g].mode = "absurdle"
        /\ games[g].answer = << >>
        /\ Cardinality(Range(games[g].candidateWords)) >= 2
        /\ Accepted(lastResult')
        /\ lastResult'.value.gameId = g)
         => /\ games'[g].gameStatus # "won"
            /\ ~games'[g].players[1].isWinner
            /\ games'[g].answer # lastResult'.value.normalizedGuess]_vars

\* C39 witness: the first guess of an Absurdle session resolved the answer to
\* another word, the session is still playing and nobody has won.
C39_Witness ==
  \E g \in DOMAIN games :
    /\ games[g].mode = "absurdle"
    /\ JustAccepted(g)
    /\ Len(games[g].players[1].guesses) = 1
    /\ games[g].answer # << >>
    /\ games[g].answer # lastResult.value.normalizedGuess
    /\ isValidWord(lastResult.value.normalizedGuess)
    /\ games[g].gameStatus = "playing"
    /\ ~games[g].players[1].isWinner

\* C40: in a multiplayer session the player at index i (from 0) has
\* currentRow + 1 guesses when the status is playing and i is below
\* currentPlayerIndex, and currentRow guesses otherwise; so two players'
\* guess counts differ by at most 1 and the guesses number
\* currentRow x N + currentPlayerIndex in all.
C40_GuessCountsFollowTurn ==
  \A g \in DOMAIN games :
    games[g].mode = "multiplayer" =>
      /\ \A i \in 0..(Len(games[g].players) - 1) :
           Len(games[g].players[i + 1].guesses) =
             IF games[g].gameStatus = "playing" /\ i < games[g].currentPlayerIndex
               THEN games[g].currentRow + 1
               ELSE games[g].currentRow
      /\ \A i, j \in 1..Len(games[g].players) :
           Len(games[g].players[i].guesses) - Len(games[g].players[j].guesses) <= 1
      /\ SumGuesses(games[g].players, 1) =
           games[g].currentRow * Len(games[g].players) + games[g].currentPlayerIndex

\* C40 witness: in the second round of a two-player session the first player
\* has guessed twice and the second player, whose turn it is, once.
C40_Witness ==
  \E g \in DOMAIN games :
    /\ games[g].mode = "multiplayer"
    /\ Len(games[g].players) = 2
    /\ games[g].gameStatus = "playing"
    /\ games[g].currentRow = 1
    /\ games[g].currentPlayerIndex = 1
    /\ Len(games[g].players[1].guesses) = 2
    /\ Len(games[g].players[2].guesses) = 1
    /\ JustAccepted(g)

====
